---- MODULE Spec2Model ----
(***************************************************************************)
(* Mirror Intelligence context engine.                                     *)
(*                                                                         *)
(*   - the Phase Gate      (context-engine/phase_manager.py)               *)
(*   - the Mind and Ledger (context-engine/data_schema.py)                 *)
(*   - the pipeline and control surface (context-engine/server.py,        *)
(*     context-engine/council.py)                                          *)
(*   - the deliberation engine (context-engine/deliberation.py)            *)
(*                                                                         *)
(* Wall-clock timestamps (EngineState.since, event timestamps) are not     *)
(* part of the Phase Gate model: no branch of phase_manager.py reads them. *)
(***************************************************************************)
EXTENDS Integers, Sequences, FiniteSets, TLC

VARIABLES
    state,         \* PhaseManager.state : EngineState
    event_log,     \* PhaseManager._event_log
    call,          \* the latest call: operation, argument, return value
    mind,          \* a LivingMind: sources, forecasts, ledger, stats
    clock,         \* datetime.utcnow(), as a logical time that never runs backwards
    ENGINE_STATE,  \* server.ENGINE_STATE
    data_file,     \* the snapshot file at DATA_PATH
    pending,       \* background tasks accepted and not yet started, by kind
    pc,            \* where run_full_pipeline is
    dpc,           \* where run_deliberation of /api/deliberate is
    locals,        \* run_full_pipeline's sources and prev_mind
    runs,          \* requests accepted so far
    clients,       \* DeliberationEngine.clients: the model ids, in dict order
    current_session, \* DeliberationEngine.current_session
    tasks,         \* the _get_initial_take tasks asyncio.gather is waiting on
    epc,           \* where deliberate() is suspended
    ri,            \* _phase_cross_response: the take whose response is awaited
    deliberations, \* deliberate() calls so far
    EVENT_QUEUE,   \* server.EVENT_QUEUE: the events put and not yet got
    ACTIVITY_LOG,  \* server.ACTIVITY_LOG
    broadcasts,    \* broadcast_event calls so far; events are numbered by them
    subscribers    \* the /api/live connections: what each has been sent, and
                   \* (for the properties) how many events preceded it

phaseVars == <<state, event_log>>
mindVars == <<mind, clock>>
serverVars == <<ENGINE_STATE, data_file, pending, pc, dpc, locals, runs>>
delibVars == <<clients, current_session, tasks, epc, ri, deliberations>>
streamVars == <<EVENT_QUEUE, ACTIVITY_LOG, broadcasts, subscribers>>
vars == <<state, event_log, call, mind, clock,
          ENGINE_STATE, data_file, pending, pc, dpc, locals, runs,
          clients, current_session, tasks, epc, ri, deliberations,
          EVENT_QUEUE, ACTIVITY_LOG, broadcasts, subscribers>>

----------------------------------------------------------------------------
(* Bounds of the model *)

MaxEvents == 4          \* longest event log explored before reset()
MaxLedger == 4          \* longest in-memory ledger explored
MaxRuns == 2            \* accepted /api/refresh and /api/deliberate requests explored
MaxClients == 3         \* most model clients an engine is explored with
MaxSessions == 2        \* deliberate() calls explored
MaxBroadcasts == 3      \* broadcast_event calls explored
MaxReceived == 3        \* messages explored on one /api/live connection

----------------------------------------------------------------------------
(* Phase Gate: phase_manager.py *)

IDLE == "idle"
INGESTING == "ingesting"
DELIBERATING == "deliberating"
SYNTHESIZING == "synthesizing"
PUBLISHED == "published"

Phase == {IDLE, INGESTING, DELIBERATING, SYNTHESIZING, PUBLISHED}

\* Python None for string-valued fields, and for blocked_reason (a rendered list)
None == "None"
NoReason == <<>>

AgentIds == {"bear", "skeptic"}
SessionIds == {"s1", "s2"}
EntryIds == {"e1"}

\* PhaseRequirements()
PhaseRequirements ==
    [agents_required |-> 0, agents_completed |-> 0,
     arbiter_required |-> FALSE, arbiter_ready |-> FALSE,
     ledger_commit_required |-> FALSE, ledger_committed |-> FALSE]

\* PhaseRequirements.met
met(r) ==
    IF r.agents_required > 0 /\ r.agents_completed < r.agents_required THEN FALSE
    ELSE IF r.arbiter_required /\ ~r.arbiter_ready THEN FALSE
    ELSE IF r.ledger_commit_required /\ ~r.ledger_committed THEN FALSE
    ELSE TRUE

\* PhaseRequirements.missing: the issue strings, in the order they are appended.
\* f"agents: {completed}/{required}" is the tuple <<"agents", completed, required>>.
missing(r) ==
    (IF r.agents_required > 0 /\ r.agents_completed < r.agents_required
        THEN << <<"agents", r.agents_completed, r.agents_required>> >> ELSE <<>>)
    \o (IF r.arbiter_required /\ ~r.arbiter_ready
        THEN << <<"arbiter_output_missing">> >> ELSE <<>>)
    \o (IF r.ledger_commit_required /\ ~r.ledger_committed
        THEN << <<"ledger_commit_pending">> >> ELSE <<>>)

\* EngineState(phase=IDLE, session_id=sid, requirements=PhaseRequirements())
EngineState(sid) ==
    [phase |-> IDLE, session_id |-> sid, requirements |-> PhaseRequirements,
     last_event |-> None, agent_executions |-> <<>>, blocked_reason |-> NoReason]

\* PhaseManager.GATES, as the set of requirement keys each target declares
GATES(target) ==
    CASE target = DELIBERATING -> {"agents_required"}
      [] target = SYNTHESIZING -> {"arbiter_required"}
      [] target = PUBLISHED -> {"ledger_commit_required"}
      [] OTHER -> {}

\* GATES[DELIBERATING]["agents_required"]
AgentsRequired == 2

\* try_advance_to, "Update requirements based on gate": keys of the gate are
\* written into the requirements, keys the gate lacks are left as they were.
UpdateRequirements(r, target) ==
    [r EXCEPT
       !.agents_required = IF "agents_required" \in GATES(target)
                           THEN AgentsRequired ELSE @,
       !.arbiter_required = IF "arbiter_required" \in GATES(target) THEN TRUE ELSE @,
       !.ledger_commit_required =
           IF "ledger_commit_required" \in GATES(target) THEN TRUE ELSE @]

\* PhaseManager.log_event: append the event, set last_event.
\* An event is [type, data]; data holds the keyword fields of the call.
LogEvent(st, log, type, data) ==
    [state |-> [st EXCEPT !.last_event = type],
     log |-> Append(log, [type |-> type, data |-> data])]

\* f"waiting: {', '.join(missing)}"
Waiting(miss) == <<"waiting">> \o miss

\* try_advance_to: the two edges taken before any gate is looked at
\* (faulty variant: the idle -> ingesting edge sent through the gates)
MutAlwaysAllowed(st, target) == target = IDLE
AlwaysAllowed(st, target) ==
    \/ target = IDLE
    \/ target = INGESTING /\ st.phase = IDLE

\* try_advance_to: state written by the two ungated edges
\* (faulty variant: the ungated edges also clear the requirement counters)
MutUngatedAdvance(st, target) ==
    [st EXCEPT !.phase = target, !.blocked_reason = NoReason,
               !.requirements = PhaseRequirements]
UngatedAdvance(st, target) ==
    [st EXCEPT !.phase = target, !.blocked_reason = NoReason]

\* try_advance_to: state written when the requirements are not met
\* (faulty variant: a blocked attempt still moves the phase)
MutBlocked(st, target) ==
    [st EXCEPT !.phase = target, !.blocked_reason = Waiting(missing(st.requirements))]
Blocked(st, target) ==
    [st EXCEPT !.blocked_reason = Waiting(missing(st.requirements))]

\* PhaseManager.try_advance_to: the new state, event log and return value
try_advance_to(st, log, target) ==
    IF AlwaysAllowed(st, target)
    THEN [state |-> UngatedAdvance(st, target), log |-> log, ret |-> "True"]
    ELSE LET gated == [st EXCEPT !.requirements = UpdateRequirements(@, target)]
         IN IF ~met(gated.requirements)
            THEN LogEvent(Blocked(gated, target), log, "phase_blocked",
                          <<target, missing(gated.requirements)>>)
                 @@ [ret |-> "False"]
            ELSE LogEvent([gated EXCEPT !.phase = target, !.blocked_reason = NoReason],
                          log, "phase_changed", <<target>>)
                 @@ [ret |-> "True"]

\* Whether try_advance_to(target) appends to the event log in this state
Logs(st, target) == ~AlwaysAllowed(st, target)

Returned(op, arg, ret) == [op |-> op, arg |-> arg, ret |-> ret]

\* PhaseManager.start_session
StartSession(sid) ==
    /\ UNCHANGED <<streamVars, delibVars, mindVars, serverVars>>
    /\ Len(event_log) < MaxEvents
    /\ LET r == LogEvent(EngineState(sid), event_log, "session_started", <<sid>>)
       IN /\ state' = r.state
          /\ event_log' = r.log
    /\ call' = Returned("start_session", sid, None)

\* PhaseManager.record_agent_execution
RecordAgentExecution(a) ==
    /\ UNCHANGED <<streamVars, delibVars, mindVars, serverVars>>
    /\ Len(event_log) < MaxEvents
    /\ LET execs == Append(state.agent_executions, a)
           st == [state EXCEPT !.agent_executions = execs,
                               !.requirements.agents_completed = Len(execs)]
           r == LogEvent(st, event_log, "agent_completed", <<a>>)
       IN /\ state' = r.state
          /\ event_log' = r.log
    /\ call' = Returned("record_agent_execution", a, None)

\* PhaseManager.record_arbiter_output
RecordArbiterOutput ==
    /\ UNCHANGED <<streamVars, delibVars, mindVars, serverVars>>
    /\ Len(event_log) < MaxEvents
    /\ LET r == LogEvent([state EXCEPT !.requirements.arbiter_ready = TRUE],
                         event_log, "arbiter_completed", <<"output_hash">>)
       IN /\ state' = r.state
          /\ event_log' = r.log
    /\ call' = Returned("record_arbiter_output", None, None)

\* PhaseManager.record_ledger_commit
RecordLedgerCommit(e) ==
    /\ UNCHANGED <<streamVars, delibVars, mindVars, serverVars>>
    /\ Len(event_log) < MaxEvents
    /\ LET r == LogEvent([state EXCEPT !.requirements.ledger_committed = TRUE],
                         event_log, "ledger_committed", <<e>>)
       IN /\ state' = r.state
          /\ event_log' = r.log
    /\ call' = Returned("record_ledger_commit", e, None)

\* PhaseManager.try_advance_to
TryAdvanceTo(target) ==
    /\ UNCHANGED <<streamVars, delibVars, mindVars, serverVars>>
    /\ Logs(state, target) => Len(event_log) < MaxEvents
    /\ LET r == try_advance_to(state, event_log, target)
       IN /\ state' = r.state
          /\ event_log' = r.log
          /\ call' = Returned("try_advance_to", target, r.ret)

\* PhaseManager.reset
Reset ==
    /\ UNCHANGED <<streamVars, delibVars, mindVars, serverVars>>
    /\ state' = EngineState(None)
    /\ event_log' = <<>>
    /\ call' = Returned("reset", None, None)

----------------------------------------------------------------------------
(* Mind and Ledger: data_schema.py *)

\* Probabilities are held in thousandths and Brier scores in ten-thousandths
\* (the four decimals round(..., 4) keeps), so the square of a three-decimal
\* probability is an exact number of millionths that resolve has to round.
\* Fields of Source and Forecast that no LivingMind method reads (text, domain,
\* question, dates, criteria, evidence_ids) are left out.

SourceIds == 1..2
Titles == 1..2
ForecastIds == 1..2
Probabilities == {0, 800, 950}
Outcomes == {"True", "False"}

\* Optional[float] / Optional[str] fields holding None
NoScore == -1
NoTime == -1

\* the url a feed entry of that id has (Source.from_feed_entry hashes the url)
Url(id) == 10 + id

Sources == [id : SourceIds, url : {Url(i) : i \in SourceIds}, title : Titles]

\* Forecast(id, probability): status "open", outcome None, brier_score None
Forecast(id, p) ==
    [id |-> id, probability |-> p, status |-> "open", outcome |-> None,
     brier_score |-> NoScore]

\* the genesis sentinel "0000000000000000"; no digest equals it (16 characters
\* against the 64 of a hexdigest), so digests are 1..251
GENESIS == 0

\* hashlib.sha256(content).hexdigest(), on a small digest space
sha256(content) == 1 + (((content % 251) * 31 + 7) % 251)

TypeCode(type) ==
    CASE type = "INGEST" -> 1
      [] type = "FORECAST_OPEN" -> 2
      [] type = "FORECAST_RESOLVE" -> 3
      [] OTHER -> 4

\* json.dumps(payload_dict, sort_keys=True, default=str), as a number
JsonDumps(payload) ==
    IF "url" \in DOMAIN payload
    THEN payload.url * 4 + payload.title
    ELSE payload.id * 10000 + payload.probability * 8
         + (IF payload.status = "open" THEN 0 ELSE 4)
         + (IF payload.outcome = "True" THEN 2
            ELSE IF payload.outcome = "False" THEN 1 ELSE 0)

\* LedgerEntry.create; the payload is a copy (model_dump, or a dict literal)
LedgerEntryCreate(type, payload, prev_hash, ts) ==
    [id |-> sha256(((ts * 5 + TypeCode(type)) * 30000 + JsonDumps(payload)) * 256
                   + prev_hash),
     timestamp |-> ts, type |-> type, payload |-> payload, prev_hash |-> prev_hash]

\* LivingMind(): the fields the methods touch
LivingMind ==
    [sources |-> <<>>, forecasts |-> <<>>, ledger |-> <<>>,
     stats |-> [sources_scanned_today |-> 0, active_forecasts |-> 0,
                last_updated |-> NoTime, mean_brier_score |-> NoScore]]

\* _append_ledger: the previous id, or the sentinel for an empty ledger
\* (faulty variant: prev taken from the first entry instead of the last)
MutPrevHash(ledger) == IF ledger # <<>> THEN ledger[1].id ELSE GENESIS
PrevHash(ledger) == IF ledger # <<>> THEN ledger[Len(ledger)].id ELSE GENESIS

\* _append_ledger: self.ledger.append(entry)
\* (faulty variant: the entry inserted at the front)
MutLedgerAppend(ledger, entry) == <<entry>> \o ledger
LedgerAppend(ledger, entry) == Append(ledger, entry)

\* LivingMind._append_ledger
append_ledger(m, type, payload, ts) ==
    [m EXCEPT !.ledger = LedgerAppend(@, LedgerEntryCreate(type, payload,
                                                           PrevHash(m.ledger), ts)),
              !.stats.last_updated = ts]

\* (faulty variant of add_source: no duplicate check)
MutAddSource(m, source, ts) ==
    LET m1 == [m EXCEPT !.sources = Append(@, source)]
        m2 == append_ledger(m1, "INGEST",
                            [url |-> source.url, title |-> source.title], ts)
    IN [m2 EXCEPT !.stats.sources_scanned_today = @ + 1]

\* LivingMind.add_source
add_source(m, source, ts) ==
    IF \E i \in 1..Len(m.sources) : m.sources[i].id = source.id
    THEN m
    ELSE LET m1 == [m EXCEPT !.sources = Append(@, source)]
             m2 == append_ledger(m1, "INGEST",
                                 [url |-> source.url, title |-> source.title], ts)
         IN [m2 EXCEPT !.stats.sources_scanned_today = @ + 1]

\* (faulty variant of add_forecast: the forecast stored, no ledger entry)
MutAddForecast(m, forecast, ts) ==
    [m EXCEPT !.forecasts = Append(@, forecast), !.stats.active_forecasts = @ + 1]

\* LivingMind.add_forecast
add_forecast(m, forecast, ts) ==
    LET m1 == [m EXCEPT !.forecasts = Append(@, forecast)]
        m2 == append_ledger(m1, "FORECAST_OPEN", forecast, ts)
    IN [m2 EXCEPT !.stats.active_forecasts = @ + 1]

\* round(x, 4) of a number of millionths, in ten-thousandths: the nearest one
\* (a square of thousandths is never halfway: no square ends in 50)
\* (faulty variant: the digits after the fourth are cut off)
MutRound4(millionths) == millionths \div 100
Round4(millionths) == (millionths + 50) \div 100

\* (faulty variant of resolve: the score is not computed)
MutResolve(f, outcome) ==
    [f EXCEPT !.outcome = outcome, !.status = "resolved"]

\* Forecast.resolve: brier = round((outcome_val - probability) ** 2, 4);
\* the status is not looked at
resolve(f, outcome) ==
    LET outcome_val == IF outcome = "True" THEN 1000 ELSE 0
    IN [f EXCEPT !.outcome = outcome, !.status = "resolved",
                 !.brier_score = Round4((outcome_val - f.probability)
                                        * (outcome_val - f.probability))]

RECURSIVE SumBrier(_)
SumBrier(fs) == IF fs = <<>> THEN 0 ELSE Head(fs).brier_score + SumBrier(Tail(fs))

\* round(total / n, 4) of a total in ten-thousandths: nearest, ties to even
RoundDiv(total, n) ==
    LET q == total \div n
        r == total % n
    IN IF 2 * r > n \/ (2 * r = n /\ q % 2 = 1) THEN q + 1 ELSE q

\* (faulty variant of recalc_score: the total is divided by the number of all
\* forecasts)
MutRecalcScore(m) ==
    LET resolved == SelectSeq(m.forecasts, LAMBDA f : f.status = "resolved")
    IN IF resolved = <<>>
       THEN [m EXCEPT !.stats.mean_brier_score = NoScore]
       ELSE [m EXCEPT !.stats.mean_brier_score =
                          RoundDiv(SumBrier(resolved), Len(m.forecasts))]

\* LivingMind._recalc_score
recalc_score(m) ==
    LET resolved == SelectSeq(m.forecasts, LAMBDA f : f.status = "resolved")
    IN IF resolved = <<>>
       THEN [m EXCEPT !.stats.mean_brier_score = NoScore]
       ELSE [m EXCEPT !.stats.mean_brier_score =
                          RoundDiv(SumBrier(resolved), Len(resolved))]

\* (faulty variant of OpenMatches: the status is not looked at)
MutOpenMatches(m, forecast_id) ==
    {i \in 1..Len(m.forecasts) : m.forecasts[i].id = forecast_id}

\* resolve_forecast: the indexes the loop would stop at
OpenMatches(m, forecast_id) ==
    {i \in 1..Len(m.forecasts) :
        m.forecasts[i].id = forecast_id /\ m.forecasts[i].status = "open"}

\* LivingMind.resolve_forecast: the first open forecast of that id, if any
resolve_forecast(m, forecast_id, outcome, ts) ==
    IF OpenMatches(m, forecast_id) = {}
    THEN m
    ELSE LET i == CHOOSE k \in OpenMatches(m, forecast_id) :
                      \A l \in OpenMatches(m, forecast_id) : k <= l
             f == resolve(m.forecasts[i], outcome)
             m1 == [m EXCEPT !.forecasts[i] = f]
         IN recalc_score(append_ledger(m1, "FORECAST_RESOLVE", f, ts))

\* the clock read by an operation: datetime.utcnow() counts microseconds, so
\* every read is later than the one before
Now == {clock + 1}

\* mind.add_source(source)
AddSource(source) ==
    /\ Len(mind.ledger) < MaxLedger
    /\ \E ts \in Now :
         /\ mind' = add_source(mind, source, ts)
         /\ clock' = IF mind' = mind THEN clock ELSE ts
    /\ call' = Returned("add_source", source, None)
    /\ UNCHANGED <<streamVars, delibVars, phaseVars, serverVars>>

\* mind.add_forecast(forecast)
AddForecast(forecast) ==
    /\ Len(mind.ledger) < MaxLedger
    /\ \E ts \in Now :
         /\ mind' = add_forecast(mind, forecast, ts)
         /\ clock' = ts
    /\ call' = Returned("add_forecast", forecast, None)
    /\ UNCHANGED <<streamVars, delibVars, phaseVars, serverVars>>

\* mind.resolve_forecast(forecast_id, outcome)
ResolveForecast(forecast_id, outcome) ==
    /\ Len(mind.ledger) < MaxLedger
    /\ \E ts \in Now :
         /\ mind' = resolve_forecast(mind, forecast_id, outcome, ts)
         /\ clock' = IF mind' = mind THEN clock ELSE ts
    /\ call' = Returned("resolve_forecast", <<forecast_id, outcome>>, None)
    /\ UNCHANGED <<streamVars, delibVars, phaseVars, serverVars>>

\* f.resolve(outcome), called on a stored Forecast object itself (the objects of
\* mind.forecasts are handed out by reference)
ForecastResolve(i, outcome) ==
    /\ i \in 1..Len(mind.forecasts)
    /\ mind' = [mind EXCEPT !.forecasts[i] = resolve(@, outcome)]
    /\ call' = Returned("Forecast.resolve", <<i, outcome>>, None)
    /\ UNCHANGED <<streamVars, delibVars, phaseVars, serverVars, clock>>

----------------------------------------------------------------------------
(* Pipeline and control surface: server.py, council.py, ingest.py *)

\* sources as Source.from_feed_entry builds them: the id is the hash of the url
FeedSources == {s \in Sources : s.url = Url(s.id)}

\* _parse_forecasts clamps the probability into [0.01, 0.99]
ParsedProbabilities == {950}

\* sequences of at most two records of S with pairwise different ids
DistinctIdSeqs(S) ==
    {<<>>} \cup {<<x>> : x \in S}
           \cup {q \in S \X S : q[1].id # q[2].id}

\* IngestEngine.ingest_all()["sources"]: deduplicated by id
IngestResults == DistinctIdSeqs(FeedSources)

\* _parse_forecasts: one open Forecast per FORECAST line, ids numbered by count
ParsedForecasts ==
    DistinctIdSeqs({Forecast(id, p) : id \in ForecastIds, p \in ParsedProbabilities})

NoFile == [exists |-> FALSE]

\* run_full_pipeline before it has assigned sources and prev_mind
NoLocals == [sources |-> <<>>, prev_mind |-> [is_none |-> TRUE]]

\* PortalData.to_json_file: json.dump(model_dump(), default=str); datetimes are
\* written as strings
ToJson(m) ==
    [m EXCEPT !.ledger = [i \in 1..Len(m.ledger) |->
                             [m.ledger[i] EXCEPT !.timestamp = <<"str", @>>]]]

\* PortalData.from_json_file: model_validate parses the strings back
FromJson(j) ==
    [j EXCEPT !.ledger = [i \in 1..Len(j.ledger) |->
                             [j.ledger[i] EXCEPT !.timestamp = @[2]]]]

\* what open(path, "w") and an interrupted json.dump leave behind: the start
\* of the new text, which json.load rejects
PartialFile == [exists |-> TRUE, partial |-> TRUE]

\* json.load accepts the text of the file
IsJson(file) == "json" \in DOMAIN file

\* run_full_pipeline: prev_mind, None when there is no snapshot or when
\* from_json_file raises (bare except); from_json_file validates the fields
\* and does not look at the hashes
LoadPrevMind(file) ==
    IF file.exists /\ IsJson(file)
    THEN [is_none |-> FALSE, mind |-> FromJson(file.json)]
    ELSE [is_none |-> TRUE]

RECURSIVE AddForecasts(_, _, _)
\* generate_mind: for f in forecasts: mind.add_forecast(f)
AddForecasts(m, fs, ts) ==
    IF fs = <<>> THEN m
    ELSE AddForecasts(add_forecast(m, Head(fs), ts), Tail(fs), ts + 1)

RECURSIVE PreserveForecasts(_, _)
\* generate_mind: forecasts of the previous state whose id is new are appended
\* to mind.forecasts directly
PreserveForecasts(m, pfs) ==
    IF pfs = <<>> THEN m
    ELSE LET pf == Head(pfs)
             m1 == IF \E i \in 1..Len(m.forecasts) : m.forecasts[i].id = pf.id
                   THEN m
                   ELSE [m EXCEPT !.forecasts = Append(@, pf)]
         IN PreserveForecasts(m1, Tail(pfs))

\* CouncilEngine.generate_mind: a new LivingMind, the parsed forecasts added,
\* the previous forecasts preserved
generate_mind(forecasts, previous_state, ts) ==
    LET m == AddForecasts(LivingMind, forecasts, ts)
    IN IF previous_state.is_none THEN m
       ELSE PreserveForecasts(m, previous_state.mind.forecasts)

RECURSIVE MergeSources(_, _, _)
\* run_full_pipeline: for s in sources: mind.add_source(s)
MergeSources(m, ss, ts) ==
    IF ss = <<>> THEN m
    ELSE MergeSources(add_source(m, Head(ss), ts), Tail(ss), ts + 1)

\* run_full_pipeline: the stats written after the merge
PipelineStats(m, unique_sources, ts) ==
    [m EXCEPT !.stats.sources_scanned_today = unique_sources,
              !.stats.last_updated = ts,
              !.stats.active_forecasts =
                  Len(SelectSeq(m.forecasts, LAMBDA f : f.status = "open"))]

\* GET /api/status, the phase it reports
get_status == [phase |-> ENGINE_STATE.phase,
               sessions_today |-> ENGINE_STATE.sessions_today,
               sources_ingested |-> ENGINE_STATE.sources_ingested]

\* GET /api/health
health_check ==
    [overall |-> IF ENGINE_STATE.phase \in {"idle", "complete"} THEN "OK" ELSE "BUSY",
     phase |-> ENGINE_STATE.phase]

\* the heartbeat of GET /api/live
heartbeat == [type |-> "heartbeat", phase |-> ENGINE_STATE.phase]

\* PhaseManager.get_state: EngineState.to_dict
get_state ==
    [phase |-> state.phase, session_id |-> state.session_id,
     requirements |-> [agents_required |-> state.requirements.agents_required,
                       agents_completed |-> state.requirements.agents_completed,
                       arbiter_required |-> state.requirements.arbiter_required,
                       arbiter_ready |-> state.requirements.arbiter_ready,
                       ledger_committed |-> state.requirements.ledger_committed,
                       met |-> met(state.requirements),
                       missing |-> missing(state.requirements)],
     last_event |-> state.last_event, blocked_reason |-> state.blocked_reason]

\* POST /api/refresh
Refresh ==
    /\ runs < MaxRuns
    /\ IF ENGINE_STATE.phase # "idle"
       THEN /\ call' = Returned("refresh", None, "busy")
            /\ UNCHANGED <<streamVars, delibVars, pending, runs>>
       ELSE /\ call' = Returned("refresh", None, "started")
            /\ pending' = [pending EXCEPT !.pipeline = @ + 1]
            /\ runs' = runs + 1
    /\ UNCHANGED <<streamVars, delibVars, phaseVars, mindVars, ENGINE_STATE, data_file, pc, dpc, locals>>

\* POST /api/deliberate
DeliberateOnly ==
    /\ runs < MaxRuns
    /\ IF ENGINE_STATE.phase # "idle"
       THEN /\ call' = Returned("deliberate_only", None, "busy")
            /\ UNCHANGED <<streamVars, delibVars, pending, runs>>
       ELSE /\ call' = Returned("deliberate_only", None, "started")
            /\ pending' = [pending EXCEPT !.deliberation = @ + 1]
            /\ runs' = runs + 1
    /\ UNCHANGED <<streamVars, delibVars, phaseVars, mindVars, ENGINE_STATE, data_file, pc, dpc, locals>>

\* run_deliberation starts: ENGINE_STATE["phase"] = "deliberating"
DeliberationStart ==
    /\ pending.deliberation > 0 /\ dpc = "none"
    /\ pending' = [pending EXCEPT !.deliberation = @ - 1]
    /\ ENGINE_STATE' = [ENGINE_STATE EXCEPT !.phase = "deliberating"]
    /\ dpc' = "deliberate"
    /\ UNCHANGED <<streamVars, delibVars, phaseVars, mindVars, call, data_file, pc, locals, runs>>

\* run_deliberation ends: ENGINE_STATE["phase"] = "idle"
DeliberationFinish ==
    /\ dpc = "deliberate"
    /\ ENGINE_STATE' = [ENGINE_STATE EXCEPT !.phase = "idle"]
    /\ dpc' = "none"
    /\ UNCHANGED <<streamVars, delibVars, phaseVars, mindVars, call, data_file, pending, pc, locals, runs>>

\* run_full_pipeline starts: ENGINE_STATE["phase"] = "ingesting"
PipelineStart ==
    /\ pending.pipeline > 0 /\ pc = "none"
    /\ pending' = [pending EXCEPT !.pipeline = @ - 1]
    /\ ENGINE_STATE' = [ENGINE_STATE EXCEPT !.phase = "ingesting"]
    /\ pc' = "ingest"
    /\ UNCHANGED <<streamVars, delibVars, phaseVars, mindVars, call, data_file, dpc, locals, runs>>

\* run_full_pipeline, 1. INGEST done: phase "deliberating"
PipelineIngest(sources) ==
    /\ pc = "ingest"
    /\ locals' = [locals EXCEPT !.sources = sources]
    /\ ENGINE_STATE' = [ENGINE_STATE EXCEPT !.sources_ingested = Len(sources),
                                            !.phase = "deliberating"]
    /\ pc' = "deliberate"
    /\ UNCHANGED <<streamVars, delibVars, phaseVars, mindVars, call, data_file, pending, dpc, runs>>

\* run_full_pipeline, 2. DELIBERATE done: phase "synthesizing", prev_mind loaded
PipelineDeliberate ==
    /\ pc = "deliberate"
    /\ ENGINE_STATE' = [ENGINE_STATE EXCEPT !.sessions_today = @ + 1,
                                            !.phase = "synthesizing"]
    /\ locals' = [locals EXCEPT !.prev_mind = LoadPrevMind(data_file)]
    /\ pc' = "generate"
    /\ UNCHANGED <<streamVars, delibVars, phaseVars, mindVars, call, data_file, pending, dpc, runs>>

\* run_full_pipeline, 3. BUILD MIND and 4. SAVE: generate_mind returns, the
\* sources are merged, the stats written, phase "complete", the snapshot saved
PipelineSave(forecasts) ==
    /\ pc = "generate"
    /\ LET t1 == clock + 1
           m1 == generate_mind(forecasts, locals.prev_mind, t1)
           t2 == t1 + Len(forecasts)
           m2 == MergeSources(m1, locals.sources, t2)
           t3 == t2 + Len(locals.sources)
           m3 == PipelineStats(m2, Len(locals.sources), t3)
       IN /\ mind' = m3
          /\ clock' = t3
          /\ data_file' = [exists |-> TRUE, json |-> ToJson(m3)]
    /\ ENGINE_STATE' = [ENGINE_STATE EXCEPT !.phase = "complete"]
    /\ pc' = "sleep"
    /\ UNCHANGED <<streamVars, delibVars, phaseVars, call, pending, dpc, locals, runs>>

\* run_full_pipeline, after asyncio.sleep(2): phase "idle"; the function
\* returns and its locals are gone
PipelineFinish ==
    /\ pc = "sleep"
    /\ ENGINE_STATE' = [ENGINE_STATE EXCEPT !.phase = "idle"]
    /\ pc' = "none"
    /\ locals' = NoLocals
    /\ mind' = LivingMind
    /\ UNCHANGED <<streamVars, delibVars, phaseVars, clock, call, data_file, pending, dpc, runs>>

\* run_full_pipeline, 3. BUILD MIND and 4. SAVE with a storage failure: phase
\* "complete" is set, to_json_file has opened the file for writing and
\* json.dump raises (disk full, I/O error); the exception ends the task
PipelineSaveFails(forecasts) ==
    /\ pc = "generate"
    /\ clock' = clock + 1 + Len(forecasts) + Len(locals.sources)
    /\ data_file' = PartialFile
    /\ ENGINE_STATE' = [ENGINE_STATE EXCEPT !.phase = "complete"]
    /\ pc' = "none"
    /\ locals' = NoLocals
    /\ mind' = LivingMind
    /\ UNCHANGED <<streamVars, delibVars, phaseVars, call, pending, dpc, runs>>

\* the snapshot is damaged between two runs: the prev_hash of one ledger entry
\* after the first no longer names the entry before it
Tamper(i) ==
    /\ pc = "none"
    /\ data_file.exists /\ IsJson(data_file)
    /\ i \in 2..Len(data_file.json.ledger)
    /\ \A k \in 2..Len(data_file.json.ledger) :
          data_file.json.ledger[k].prev_hash = data_file.json.ledger[k - 1].id
    /\ data_file' = [data_file EXCEPT !.json.ledger[i].prev_hash = GENESIS]
    /\ UNCHANGED <<streamVars, delibVars, phaseVars, mindVars, call,
                   ENGINE_STATE, pending, pc, dpc, locals, runs>>

----------------------------------------------------------------------------
(* Deliberation engine: deliberation.py *)

\* A model's text is its lines, each a field marker ("" when the line starts
\* with none of them) and the rest of the line. Confidences and probabilities
\* are held in hundredths. Timestamps of takes and responses, latencies, names
\* and personas are left out; an event is kept as its type.

\* MODELS, in the order of the dict
MODELS == <<"oracle", "contrarian", "empiricist", "accelerationist", "local">>

Provider(model_id) ==
    CASE model_id = "oracle" -> "openai"
      [] model_id = "contrarian" -> "anthropic"
      [] model_id = "empiricist" -> "deepseek"
      [] model_id = "accelerationist" -> "groq"
      [] OTHER -> "ollama"

\* the models that need an API key, and what the environment may hold for one
Keyed == {"oracle", "contrarian", "empiricist", "accelerationist"}
KeyValues == {"", "YOUR_KEY_HERE", "sk-live"}
Environments == [Keyed -> KeyValues]
\* the environments explored: each key either unset or set to a real key, the
\* keys set being those of one model or of the first models of MODELS
KeysSet(env) == {m \in Keyed : env[m] # ""}
KeyedEnvironments ==
    {env \in [Keyed -> {"", "sk-live"}] :
        \/ Cardinality(KeysSet(env)) <= 1
        \/ KeysSet(env) = {MODELS[i] : i \in 1..Cardinality(KeysSet(env))}}
NoKeys == [m \in Keyed |-> ""]

\* (faulty variant of check_availability: a model is available when its key is
\* set, the local model has none)
MutCheckAvailability(model_id, env) ==
    /\ Provider(model_id) # "ollama"
    /\ env[model_id] # "" /\ env[model_id] # "YOUR_KEY_HERE"

\* ModelClient._check_availability
check_availability(model_id, env) ==
    IF Provider(model_id) = "ollama" THEN TRUE
    ELSE env[model_id] # "" /\ env[model_id] # "YOUR_KEY_HERE"

\* DeliberationEngine._init_clients
init_clients(env) ==
    LET available == SelectSeq(MODELS, LAMBDA m : check_availability(m, env))
    IN IF available = <<>> THEN <<"local">> ELSE available

\* what a provider does with a request: a reply in the format asked for, a
\* reply in no format, or an exception (HTTP error, timeout, bad JSON)
Replies == {"formatted", "malformed", "raise"}

Line(marker, value) == [marker |-> marker, value |-> value]

FormattedText(kind) ==
    CASE kind = "take" ->
           <<Line("TAKE:", "analysis"), Line("CONFIDENCE:", 80)>>
      [] kind = "response" ->
           <<Line("AGREEMENT:", 50), Line("RESPONSE:", "rebuttal"),
             Line("UPDATED_CONFIDENCE:", 60)>>
      [] OTHER ->
           <<Line("CONSENSUS:", "consensus"), Line("FINAL_PROBABILITY:", 70)>>

\* _ollama_generate, _openai_generate, ...: the text, or an exception
provider_generate(kind, reply) ==
    CASE reply = "formatted" -> [raised |-> FALSE, text |-> FormattedText(kind)]
      [] reply = "malformed" -> [raised |-> FALSE, text |-> <<Line("", "rambling")>>]
      [] OTHER -> [raised |-> TRUE]

\* (faulty variant of generate: the exception is not caught)
MutGenerate(kind, reply) == provider_generate(kind, reply)

\* (faulty variant of generate: the exception is caught for the initial takes
\* and passed on by the later calls)
MutGenerateLate(kind, reply) ==
    LET out == provider_generate(kind, reply)
    IN IF out.raised /\ kind = "take"
       THEN [raised |-> FALSE, text |-> <<Line("", "[ERROR]")>>]
       ELSE out

\* ModelClient.generate: except Exception -> "[ERROR: ...]"
generate(kind, reply) ==
    LET out == provider_generate(kind, reply)
    IN IF out.raised THEN [raised |-> FALSE, text |-> <<Line("", "[ERROR]")>>]
       ELSE out

\* the parsing loops: the value of the last line that starts with the marker
FieldOf(text, marker, default) ==
    LET hits == {i \in 1..Len(text) : text[i].marker = marker}
    IN IF hits = {} THEN default
       ELSE text[CHOOSE i \in hits : \A j \in hits : j <= i].value

\* text[:500], text[:300]: the start of the raw text
RawText(text) == text[1].value

DefaultConfidence == 50

NoSession == [is_none |-> TRUE]
NoSynthesis == [is_none |-> TRUE]

\* DeliberationSession(session_id, topic, context, started_at)
DeliberationSession(session_id, started_at) ==
    [is_none |-> FALSE, session_id |-> session_id, phase |-> "idle",
     started_at |-> started_at, completed_at |-> NoTime,
     initial_takes |-> <<>>, responses |-> <<>>, synthesis |-> NoSynthesis,
     events |-> <<>>]

\* DeliberationEngine._emit; the event callback neither suspends nor raises
emit(s, event_type) == [s EXCEPT !.events = Append(@, event_type)]

\* a task of asyncio.gather that has not returned; nth is the place of a task
\* in the order in which the tasks return
Pending == [done |-> FALSE, is_take |-> FALSE, nth |-> 0]

\* (faulty variant of AllReturned: the wait ends with the first task that
\* returns)
MutAllReturned(results) == \E i \in 1..Len(results) : results[i].done

\* asyncio.gather(*tasks): it returns when every task has returned
AllReturned(results) == \A i \in 1..Len(results) : results[i].done

\* _get_initial_take after model_thinking: the ModelTake, or the exception the
\* task ends with
get_initial_take(model_id, reply) ==
    LET g == generate("take", reply)
    IN IF g.raised THEN [done |-> TRUE, is_take |-> FALSE, nth |-> 0]
       ELSE LET parsed == FieldOf(g.text, "TAKE:", "")
            IN [done |-> TRUE, is_take |-> TRUE, nth |-> 0,
                take |-> [model_id |-> model_id,
                          take |-> IF parsed = "" THEN RawText(g.text) ELSE parsed,
                          confidence |-> FieldOf(g.text, "CONFIDENCE:",
                                                 DefaultConfidence)]]

RECURSIVE EmitThinking(_, _)
\* the tasks start in order and each emits model_thinking before it suspends
EmitThinking(s, n) == IF n = 0 THEN s ELSE EmitThinking(emit(s, "model_thinking"), n - 1)

RECURSIVE MutTakesOf(_)
\* (faulty variant of TakesOf: the takes are appended last task first)
MutTakesOf(results) ==
    IF results = <<>> THEN <<>>
    ELSE MutTakesOf(Tail(results))
         \o (IF Head(results).is_take THEN <<Head(results).take>> ELSE <<>>)

RECURSIVE TakesOf(_)
\* for result in results: if isinstance(result, ModelTake): append
TakesOf(results) ==
    IF results = <<>> THEN <<>>
    ELSE (IF Head(results).is_take THEN <<Head(results).take>> ELSE <<>>)
         \o TakesOf(Tail(results))

\* takes[(i + 1) % len(takes)], with positions counted from 1
\* (faulty variant: the responder's own take)
MutRingTarget(i, n) == i
RingTarget(i, n) == (i % n) + 1

\* if len(initial_takes) < 2: return
\* (faulty variant: one take is enough)
MutEnoughTakes(takes) == Len(takes) >= 1
EnoughTakes(takes) == Len(takes) >= 2

\* _phase_synthesis up to the await of generate
synthesis_begin(s) == emit([s EXCEPT !.phase = "synthesizing"], "phase_change")

\* the loop of _phase_cross_response from position i on, up to its next await:
\* a responder that is no client is skipped; after the last take the phase
\* function returns
cross_loop(s, i) ==
    LET n == Len(s.initial_takes)
        rest == {j \in i..n : \E k \in 1..Len(clients) :
                                 clients[k] = s.initial_takes[j].model_id}
    IN IF rest = {}
       THEN [session |-> s, epc |-> "crossed", ri |-> 0]
       ELSE [session |-> emit(s, "model_responding"), epc |-> "cross",
             ri |-> CHOOSE j \in rest : \A k \in rest : j <= k]

\* (faulty variant of cross_response_begin: with fewer than two takes it
\* returns before the phase is set)
MutCrossResponseBegin(s) ==
    IF ~EnoughTakes(s.initial_takes)
    THEN [session |-> s, epc |-> "crossed", ri |-> 0]
    ELSE cross_loop(emit([s EXCEPT !.phase = "cross_response"], "phase_change"), 1)

\* _phase_cross_response up to its first await
cross_response_begin(s) ==
    LET s1 == emit([s EXCEPT !.phase = "cross_response"], "phase_change")
    IN IF ~EnoughTakes(s1.initial_takes)
       THEN [session |-> s1, epc |-> "crossed", ri |-> 0]
       ELSE cross_loop(s1, 1)

\* (faulty variant of ModelResponse: without an UPDATED_CONFIDENCE line the
\* confidence of the take responded to is taken over)
MutModelResponse(s, i, text) ==
    LET responder_take == s.initial_takes[i]
        target_take == s.initial_takes[RingTarget(i, Len(s.initial_takes))]
        parsed == FieldOf(text, "RESPONSE:", "")
    IN [model_id |-> responder_take.model_id,
        responding_to |-> target_take.model_id,
        agreement_level |-> FieldOf(text, "AGREEMENT:", 0),
        response |-> IF parsed = "" THEN RawText(text) ELSE parsed,
        updated_confidence |-> FieldOf(text, "UPDATED_CONFIDENCE:",
                                       target_take.confidence)]

\* the ModelResponse built from the responder's text
ModelResponse(s, i, text) ==
    LET responder_take == s.initial_takes[i]
        target_take == s.initial_takes[RingTarget(i, Len(s.initial_takes))]
        parsed == FieldOf(text, "RESPONSE:", "")
    IN [model_id |-> responder_take.model_id,
        responding_to |-> target_take.model_id,
        agreement_level |-> FieldOf(text, "AGREEMENT:", 0),
        response |-> IF parsed = "" THEN RawText(text) ELSE parsed,
        updated_confidence |-> FieldOf(text, "UPDATED_CONFIDENCE:",
                                       responder_take.confidence)]

\* (faulty variant of Shift: without a response the updated confidence counts
\* as 0)
MutShift(s, take) ==
    LET own == {k \in 1..Len(s.responses) : s.responses[k].model_id = take.model_id}
    IN (IF own = {} THEN 0
        ELSE s.responses[CHOOSE k \in own : \A l \in own : k <= l].updated_confidence)
       - take.confidence

\* _phase_synthesis: the shift of a take's model, from its first response
Shift(s, take) ==
    LET own == {k \in 1..Len(s.responses) : s.responses[k].model_id = take.model_id}
    IN IF own = {} THEN 0
       ELSE s.responses[CHOOSE k \in own : \A l \in own : k <= l].updated_confidence
            - take.confidence

\* the Synthesis built from the synthesizer's text
Synthesis(s, text) ==
    LET parsed == FieldOf(text, "CONSENSUS:", "")
        ids == {s.initial_takes[i].model_id : i \in 1..Len(s.initial_takes)}
    IN [is_none |-> FALSE,
        consensus |-> IF parsed = "" THEN RawText(text) ELSE parsed,
        confidence_shifts |->
            [m \in ids |-> Shift(s, s.initial_takes[
                CHOOSE i \in 1..Len(s.initial_takes) :
                    /\ s.initial_takes[i].model_id = m
                    /\ \A j \in 1..Len(s.initial_takes) :
                          s.initial_takes[j].model_id = m => j <= i])],
        final_probability |-> FieldOf(text, "FINAL_PROBABILITY:", NoScore)]

\* deliberate(), after _phase_synthesis returned
\* (faulty variant: completed_at left unset)
MutFinish(s, ts) == [s EXCEPT !.phase = "complete"]
Finish(s, ts) == [s EXCEPT !.completed_at = ts, !.phase = "complete"]

\* DeliberationEngine(event_callback) in an environment
NewEngine(env) ==
    /\ epc = "none"
    /\ deliberations < MaxSessions
    /\ Len(init_clients(env)) <= MaxClients
    /\ clients' = init_clients(env)
    /\ current_session' = NoSession
    /\ call' = Returned("DeliberationEngine", None, None)
    /\ UNCHANGED <<streamVars, phaseVars, mindVars, serverVars, tasks, epc, ri, deliberations>>

\* engine.deliberate(topic, context): the new session
Deliberate ==
    /\ epc = "none"
    /\ deliberations < MaxSessions
    /\ current_session' = DeliberationSession(clock + 1, clock + 1)
    /\ epc' = "created"
    /\ deliberations' = deliberations + 1
    /\ clock' = clock + 1
    /\ call' = Returned("deliberate", None, "started")
    /\ UNCHANGED <<streamVars, phaseVars, mind, serverVars, clients, tasks, ri>>

\* _phase_initial_takes up to the await of asyncio.gather: phase
\* initial_takes, one task per client
InitialTakesBegin ==
    /\ epc = "created"
    /\ LET s1 == emit([current_session EXCEPT !.phase = "initial_takes"],
                      "phase_change")
       IN current_session' = EmitThinking(s1, Len(clients))
    /\ tasks' = [i \in 1..Len(clients) |-> Pending]
    /\ epc' = "gather"
    /\ call' = Returned("_phase_initial_takes", None, None)
    /\ UNCHANGED <<streamVars, phaseVars, mindVars, serverVars, clients, ri, deliberations>>

\* one provider answers its initial-take request; the tasks finish in any order
TakeReturns(i, reply) ==
    /\ epc = "gather"
    /\ i \in 1..Len(tasks)
    /\ ~tasks[i].done
    /\ LET returned == Cardinality({j \in 1..Len(tasks) : tasks[j].done})
           result == [get_initial_take(clients[i], reply) EXCEPT !.nth = returned + 1]
       IN /\ tasks' = [tasks EXCEPT ![i] = result]
          /\ current_session' = IF result.is_take
                                THEN emit(current_session, "model_take")
                                ELSE current_session
    /\ call' = Returned("_get_initial_take", clients[i], reply)
    /\ UNCHANGED <<streamVars, phaseVars, mindVars, serverVars, clients, epc, ri, deliberations>>

\* asyncio.gather returns: the takes are appended in task order and
\* _phase_initial_takes returns
GatherReturns ==
    /\ epc = "gather"
    /\ AllReturned(tasks)
    /\ current_session' = [current_session EXCEPT
                             !.initial_takes = @ \o TakesOf(tasks)]
    /\ tasks' = <<>>
    /\ epc' = "gathered"
    /\ call' = Returned("gather", [i \in 1..Len(tasks) |-> tasks[i].nth], None)
    /\ UNCHANGED <<streamVars, phaseVars, mindVars, serverVars, clients, ri, deliberations>>

\* _phase_cross_response up to its first await, or to its return when there
\* are fewer than two takes
CrossResponseBegin ==
    /\ epc = "gathered"
    /\ LET next == cross_response_begin(current_session)
       IN /\ current_session' = next.session
          /\ epc' = next.epc
          /\ ri' = next.ri
    /\ call' = Returned("_phase_cross_response", None, None)
    /\ UNCHANGED <<streamVars, phaseVars, mindVars, serverVars, clients, tasks, deliberations>>

\* the responder answers: its ModelResponse is appended and the loop goes on to
\* the next responder, or ends; an exception of generate would end deliberate()
RespondReturns(reply) ==
    /\ epc = "cross"
    /\ LET g == generate("response", reply)
       IN IF g.raised
          THEN /\ epc' = "none"
               /\ ri' = 0
               /\ UNCHANGED current_session
          ELSE LET s1 == [current_session EXCEPT
                            !.responses = Append(@, ModelResponse(current_session,
                                                                  ri, g.text))]
                   next == cross_loop(emit(s1, "model_response"), ri + 1)
               IN /\ current_session' = next.session
                  /\ epc' = next.epc
                  /\ ri' = next.ri
    /\ call' = Returned("respond", ri, reply)
    /\ UNCHANGED <<streamVars, phaseVars, mindVars, serverVars, clients, tasks, deliberations>>

\* _phase_synthesis up to the await of generate: phase synthesizing
SynthesisBegin ==
    /\ epc = "crossed"
    /\ current_session' = synthesis_begin(current_session)
    /\ epc' = "synthesis"
    /\ call' = Returned("_phase_synthesis", None, None)
    /\ UNCHANGED <<streamVars, phaseVars, mindVars, serverVars, clients, tasks, ri, deliberations>>

\* the synthesizer (the first client) answers: the Synthesis is assigned and
\* _phase_synthesis returns; an exception of generate would end deliberate()
SynthesisReturns(reply) ==
    /\ epc = "synthesis"
    /\ LET g == generate("synthesis", reply)
       IN IF g.raised
          THEN /\ epc' = "none"
               /\ UNCHANGED current_session
          ELSE /\ epc' = "finish"
               /\ current_session' =
                     emit([current_session EXCEPT
                             !.synthesis = Synthesis(current_session, g.text)],
                          "synthesis_complete")
    /\ call' = Returned("synthesize", None, reply)
    /\ UNCHANGED <<streamVars, phaseVars, mindVars, serverVars, clients, tasks, ri, deliberations>>

\* deliberate() after _phase_synthesis: completed_at and phase complete
DeliberateCompletes ==
    /\ epc = "finish"
    /\ current_session' = Finish(current_session, clock + 1)
    /\ clock' = clock + 1
    /\ epc' = "completed"
    /\ call' = Returned("deliberate", None, "completing")
    /\ UNCHANGED <<streamVars, phaseVars, mind, serverVars, clients, tasks, ri, deliberations>>

\* deliberate(): deliberation_complete emitted, the session returned
DeliberateReturns ==
    /\ epc = "completed"
    /\ current_session' = emit(current_session, "deliberation_complete")
    /\ epc' = "none"
    /\ call' = Returned("deliberate", None, "complete")
    /\ UNCHANGED <<streamVars, phaseVars, mindVars, serverVars, clients, tasks, ri, deliberations>>

----------------------------------------------------------------------------
(* Forecast parser: council.py *)

\* The forecaster's raw response is its lines; a line is kept as whether it
\* contains "FORECAST:" and the texts after "PROB:" of its parts, in order.
\* Probabilities are in thousandths. Question, criteria and dates are left out.

\* what may follow "PROB:": a number, "nan", or text float() rejects
ProbTexts ==
    {[kind |-> "number", v |-> n] : n \in {-500, 0, 5, 10, 350, 990, 995, 1500}}
    \cup {[kind |-> "nan", v |-> 0], [kind |-> "text", v |-> 0]}

ProbLists ==
    {<<>>} \cup {<<a>> : a \in ProbTexts} \cup {<<a, b>> : a, b \in ProbTexts}

ShortProbLists == {<<>>} \cup {<<a>> : a \in ProbTexts}

\* the raw responses explored: one line, or two lines of at most one PROB part
RawResponses ==
    {<<[forecast |-> f, probs |-> ps]>> : f \in BOOLEAN, ps \in ProbLists}
    \cup {<<[forecast |-> TRUE, probs |-> ps], [forecast |-> f, probs |-> qs]>> :
            f \in BOOLEAN, ps \in ShortProbLists, qs \in ShortProbLists}

\* a float: a number of thousandths, or nan
Float(v) == [nan |-> FALSE, v |-> v]

\* float(text)
ParseFloat(text) ==
    [raised |-> text.kind = "text", nan |-> text.kind = "nan", v |-> text.v]

\* a < b on floats: False when either is nan
Less(a, b) == ~a.nan /\ ~b.nan /\ a.v < b.v

\* min(a, b) and max(a, b) of Python: the first argument unless the second is
\* smaller (greater)
PyMin(a, b) == IF Less(b, a) THEN b ELSE a
PyMax(a, b) == IF Less(a, b) THEN b ELSE a

\* (faulty variant of Clamp: the lower limit is missing)
MutClamp(prob) == PyMin(Float(990), prob)

\* prob = max(0.01, min(0.99, prob))
Clamp(prob) == PyMax(Float(10), PyMin(Float(990), prob))

RECURSIVE LastProb(_, _)
\* for p in parts: if "PROB:" in p: try: prob = float(...) except: pass
LastProb(prob, probs) ==
    IF probs = <<>> THEN prob
    ELSE LET f == ParseFloat(Head(probs))
         IN LastProb(IF f.raised THEN prob ELSE [nan |-> f.nan, v |-> f.v],
                     Tail(probs))

\* Field(..., ge=0, le=1): the Forecast is constructed
ProbabilityValid(prob) == ~prob.nan /\ prob.v >= 0 /\ prob.v <= 1000

RECURSIVE parse_forecasts_from(_, _)
\* _parse_forecasts: the loop over the lines, with count; a line whose
\* Forecast cannot be constructed is skipped (except Exception: pass)
parse_forecasts_from(raw, count) ==
    IF raw = <<>> THEN <<>>
    ELSE IF ~Head(raw).forecast THEN parse_forecasts_from(Tail(raw), count)
    ELSE LET prob == Clamp(LastProb(Float(500), Head(raw).probs))
         IN IF ProbabilityValid(prob)
            THEN <<Forecast(count, prob.v)>> \o parse_forecasts_from(Tail(raw), count + 1)
            ELSE parse_forecasts_from(Tail(raw), count)

parse_forecasts(raw) == parse_forecasts_from(raw, 1)

\* CouncilEngine._parse_forecasts applied to the forecaster's raw response
ParseForecasts ==
    /\ call.op = "forecaster"
    /\ call' = Returned("_parse_forecasts", call.ret, parse_forecasts(call.ret))
    /\ UNCHANGED <<streamVars, phaseVars, mindVars, serverVars, delibVars>>

\* ModelClient(MODELS[model_id]) under an environment: config.available
ModelClientInit(model_id, env) ==
    /\ call' = Returned("_check_availability", <<model_id, env>>,
                        check_availability(model_id, env))
    /\ UNCHANGED <<streamVars, phaseVars, mindVars, serverVars, delibVars>>

\* DeliberationEngine() under an environment: self.clients
EngineInit(env) ==
    /\ clients' = init_clients(env)
    /\ current_session' = NoSession
    /\ call' = Returned("_init_clients", env, None)
    /\ UNCHANGED <<streamVars, phaseVars, mindVars, serverVars, tasks, epc, ri,
                   deliberations>>

----------------------------------------------------------------------------
(* Live stream: server.py *)

\* An event is kept as its number in the order of broadcast_event calls; the
\* phase carried by the connected and heartbeat messages is left out.

Subscribers == {"s1", "s2"}

\* ACTIVITY_LOG = deque(maxlen=100)
ActivityLogMax == 100

\* deque.append with maxlen: the oldest entry leaves a full deque
DequeAppend(log, event) ==
    IF Len(log) < ActivityLogMax THEN Append(log, event)
    ELSE Append(Tail(log), event)

\* what a connection yields: 'connected', an event, or 'heartbeat'
Message(type, event) == [type |-> type, event |-> event]

NoConnection == [connected |-> FALSE, since |-> 0, received |-> <<>>]

\* broadcast_event: EVENT_QUEUE = asyncio.Queue() has no maxsize, put never waits
BroadcastEvent ==
    /\ broadcasts < MaxBroadcasts
    /\ broadcasts' = broadcasts + 1
    /\ ACTIVITY_LOG' = DequeAppend(ACTIVITY_LOG, broadcasts + 1)
    /\ EVENT_QUEUE' = Append(EVENT_QUEUE, broadcasts + 1)
    /\ call' = Returned("broadcast_event", broadcasts + 1, None)
    /\ UNCHANGED <<phaseVars, mindVars, serverVars, delibVars, subscribers>>

\* GET /api/live: a new generator, which yields 'connected' and then waits on
\* EVENT_QUEUE.get()
Connect(s) ==
    /\ ~subscribers[s].connected
    /\ subscribers' = [subscribers EXCEPT ![s] =
                          [connected |-> TRUE, since |-> broadcasts,
                           received |-> <<Message("connected", 0)>>]]
    /\ call' = Returned("live_stream", s, None)
    /\ UNCHANGED <<phaseVars, mindVars, serverVars, delibVars,
                   EVENT_QUEUE, ACTIVITY_LOG, broadcasts>>

\* EVENT_QUEUE.get() returns in the generator of s: the head of the one queue
\* all generators wait on is removed and yielded to s alone
Deliver(s) ==
    /\ subscribers[s].connected
    /\ Len(subscribers[s].received) < MaxReceived
    /\ EVENT_QUEUE # <<>>
    /\ EVENT_QUEUE' = Tail(EVENT_QUEUE)
    /\ subscribers' = [subscribers EXCEPT ![s].received =
                          Append(@, Message("event", Head(EVENT_QUEUE)))]
    /\ call' = Returned("EVENT_QUEUE.get", s, Head(EVENT_QUEUE))
    /\ UNCHANGED <<phaseVars, mindVars, serverVars, delibVars,
                   ACTIVITY_LOG, broadcasts>>

\* asyncio.TimeoutError after 5 s with nothing to get: a heartbeat
Heartbeat(s) ==
    /\ subscribers[s].connected
    /\ Len(subscribers[s].received) < MaxReceived
    /\ EVENT_QUEUE = <<>>
    /\ subscribers' = [subscribers EXCEPT ![s].received =
                          Append(@, Message("heartbeat", 0))]
    /\ call' = Returned("heartbeat", s, None)
    /\ UNCHANGED <<phaseVars, mindVars, serverVars, delibVars,
                   EVENT_QUEUE, ACTIVITY_LOG, broadcasts>>

\* the client goes away and the generator is closed
Disconnect(s) ==
    /\ subscribers[s].connected
    /\ subscribers' = [subscribers EXCEPT ![s] = NoConnection]
    /\ call' = Returned("disconnect", s, None)
    /\ UNCHANGED <<phaseVars, mindVars, serverVars, delibVars,
                   EVENT_QUEUE, ACTIVITY_LOG, broadcasts>>

----------------------------------------------------------------------------
(* Specifications *)

\* PhaseManager.__init__, LivingMind()
InitRest ==
    /\ state = EngineState(None)
    /\ event_log = <<>>
    /\ ENGINE_STATE = [phase |-> "idle", sessions_today |-> 0, sources_ingested |-> 0]
    /\ data_file = NoFile
    /\ pending = [pipeline |-> 0, deliberation |-> 0]
    /\ pc = "none"
    /\ dpc = "none"
    /\ locals = NoLocals
    /\ runs = 0
    /\ clients = init_clients(NoKeys)
    /\ current_session = NoSession
    /\ tasks = <<>>
    /\ epc = "none"
    /\ ri = 0
    /\ deliberations = 0
    /\ EVENT_QUEUE = <<>>
    /\ ACTIVITY_LOG = <<>>
    /\ broadcasts = 0
    /\ subscribers = [s \in Subscribers |-> NoConnection]

InitOthers ==
    /\ call = Returned("__init__", None, None)
    /\ InitRest

Init ==
    /\ InitOthers
    /\ mind = LivingMind
    /\ clock = 0

\* the Phase Gate under every order of calls
NextPhase ==
    \/ \E sid \in SessionIds : StartSession(sid)
    \/ \E a \in AgentIds : RecordAgentExecution(a)
    \/ RecordArbiterOutput
    \/ \E e \in EntryIds : RecordLedgerCommit(e)
    \/ \E target \in Phase : TryAdvanceTo(target)
    \/ Reset

SpecPhase == Init /\ [][NextPhase]_vars

\* a LivingMind under every order of calls
NextMind ==
    \/ \E source \in Sources : AddSource(source)
    \/ \E id \in ForecastIds, p \in Probabilities : AddForecast(Forecast(id, p))
    \/ \E id \in ForecastIds, outcome \in Outcomes : ResolveForecast(id, outcome)

SpecMind == Init /\ [][NextMind]_vars

\* one Forecast of any three-decimal probability, added to a new LivingMind
InitForecast ==
    /\ InitOthers
    /\ \E p \in 0..1000 : mind = add_forecast(LivingMind, Forecast(1, p), 1)
    /\ clock = 1

\* the Forecast resolved through the mind or directly, in every order
NextForecast ==
    \/ \E id \in ForecastIds, outcome \in Outcomes : ResolveForecast(id, outcome)
    \/ \E i \in 1..Len(mind.forecasts), outcome \in Outcomes :
          ForecastResolve(i, outcome)

SpecForecast == InitForecast /\ [][NextForecast]_vars

\* the server: requests and the background tasks they schedule
NextServer ==
    \/ Refresh
    \/ DeliberateOnly
    \/ DeliberationStart
    \/ DeliberationFinish
    \/ PipelineStart
    \/ \E sources \in IngestResults : PipelineIngest(sources)
    \/ PipelineDeliberate
    \/ \E forecasts \in ParsedForecasts : PipelineSave(forecasts)
    \/ PipelineFinish

SpecServer == Init /\ [][NextServer]_vars

\* the server with a snapshot file that can be damaged between runs and a
\* save that can fail
NextStore ==
    \/ NextServer
    \/ \E forecasts \in ParsedForecasts : PipelineSaveFails(forecasts)
    \/ \E i \in 1..MaxLedger : Tamper(i)

SpecStore == Init /\ [][NextStore]_vars

\* engines built under every credential configuration and their deliberations,
\* with every behaviour of the providers
NextDelib ==
    \/ \E env \in KeyedEnvironments : NewEngine(env)
    \/ Deliberate
    \/ InitialTakesBegin
    \/ \E i \in 1..MaxClients, reply \in Replies : TakeReturns(i, reply)
    \/ GatherReturns
    \/ CrossResponseBegin
    \/ \E reply \in Replies : RespondReturns(reply)
    \/ SynthesisBegin
    \/ \E reply \in Replies : SynthesisReturns(reply)
    \/ DeliberateCompletes
    \/ DeliberateReturns

SpecDelib == Init /\ [][NextDelib]_vars

\* the parser on every raw response of the forecaster
InitParse ==
    /\ \E raw \in RawResponses : call = Returned("forecaster", None, raw)
    /\ InitRest
    /\ mind = LivingMind
    /\ clock = 0

SpecParse == InitParse /\ [][ParseForecasts]_vars

\* clients and engines built under every environment: each key unset, the
\* placeholder, or a real key
NextClients ==
    \/ \E model_id \in {MODELS[i] : i \in 1..Len(MODELS)}, env \in Environments :
          ModelClientInit(model_id, env)
    \/ \E env \in Environments : EngineInit(env)

SpecClients == Init /\ [][NextClients]_vars

\* producers and /api/live connections under every interleaving
NextStream ==
    \/ BroadcastEvent
    \/ \E s \in Subscribers : Connect(s)
    \/ \E s \in Subscribers : Deliver(s)
    \/ \E s \in Subscribers : Heartbeat(s)
    \/ \E s \in Subscribers : Disconnect(s)

SpecStream == Init /\ [][NextStream]_vars

----------------------------------------------------------------------------
(* Phase Gate: properties *)

TryAdvanced(target) == call'.op = "try_advance_to" /\ call'.arg = target

\* C1: try_advance_to(DELIBERATING) with 0 or 1 recorded agent executions
\* returns False and leaves the phase unchanged; with 2 or more it returns
\* True and the phase becomes DELIBERATING.
C1_DeliberatingDecidedByAgentCount ==
    [][TryAdvanced(DELIBERATING) =>
         IF state.requirements.agents_completed < AgentsRequired
         THEN call'.ret = "False" /\ state'.phase = state.phase
         ELSE call'.ret = "True" /\ state'.phase = DELIBERATING]_vars

\* The part of C1 the code keeps: fewer than two executions always block.
C1_FewerThanTwoBlocks ==
    [][(TryAdvanced(DELIBERATING)
        /\ state.requirements.agents_completed < AgentsRequired)
       => call'.ret = "False" /\ state'.phase = state.phase]_vars

\* The requirement names that are short in r, as missing() words them
UnmetSet(r) ==
    {x \in {<<"agents", r.agents_completed, r.agents_required>>,
            <<"arbiter_output_missing">>, <<"ledger_commit_pending">>} :
        \/ x[1] = "agents" /\ r.agents_required > 0
                           /\ r.agents_completed < r.agents_required
        \/ x[1] = "arbiter_output_missing" /\ r.arbiter_required /\ ~r.arbiter_ready
        \/ x[1] = "ledger_commit_pending" /\ r.ledger_commit_required
                                          /\ ~r.ledger_committed}

SeqRange(q) == {q[i] : i \in 1..Len(q)}

\* C2: whenever try_advance_to(target) finds the requirements unmet it returns
\* False, the phase is what it was, blocked_reason lists exactly the unmet
\* requirements, and one phase_blocked event naming the target is appended.
C2_BlockedIsHardGate ==
    [][(call'.op = "try_advance_to"
        /\ ~(call'.arg = IDLE)
        /\ ~(call'.arg = INGESTING /\ state.phase = IDLE)
        /\ UnmetSet(UpdateRequirements(state.requirements, call'.arg)) # {})
       => /\ call'.ret = "False"
          /\ state'.phase = state.phase
          /\ state'.blocked_reason # NoReason
          /\ Head(state'.blocked_reason) = "waiting"
          /\ SeqRange(Tail(state'.blocked_reason)) = UnmetSet(state'.requirements)
          /\ Len(event_log') = Len(event_log) + 1
          /\ SubSeq(event_log', 1, Len(event_log)) = event_log
          /\ event_log'[Len(event_log')].type = "phase_blocked"
          /\ event_log'[Len(event_log')].data[1] = call'.arg
          /\ state'.last_event = "phase_blocked"]_vars

\* C2 witness: a blocked attempt at INGESTING from a non-idle phase, with two
\* requirements listed.
C2_Witness ==
    /\ call = Returned("try_advance_to", INGESTING, "False")
    /\ state.phase # IDLE
    /\ Len(state.blocked_reason) >= 3
    /\ event_log[Len(event_log)].type = "phase_blocked"

\* C3: try_advance_to(SYNTHESIZING) succeeds exactly when an arbiter output has
\* been recorded, and try_advance_to(PUBLISHED) exactly when a ledger commit has
\* been recorded, whatever was attempted earlier in the session.
C3_OwnRequirementOnly ==
    [][/\ TryAdvanced(SYNTHESIZING)
          => (call'.ret = "True" <=> state.requirements.arbiter_ready)
       /\ TryAdvanced(PUBLISHED)
          => (call'.ret = "True" <=> state.requirements.ledger_committed)]_vars

\* The declared order of phases
Successor(p) ==
    CASE p = IDLE -> INGESTING
      [] p = INGESTING -> DELIBERATING
      [] p = DELIBERATING -> SYNTHESIZING
      [] p = SYNTHESIZING -> PUBLISHED
      [] OTHER -> IDLE

\* C4: the phase only moves to its successor in idle -> ingesting ->
\* deliberating -> synthesizing -> published, or back to idle; and PUBLISHED is
\* only held by a session with two agent executions, an arbiter output and a
\* ledger commit.
C4_DeclaredOrderOnly ==
    [][/\ state'.phase # state.phase
          => state'.phase = IDLE \/ state'.phase = Successor(state.phase)
       /\ state'.phase = PUBLISHED
          => /\ state'.requirements.agents_completed >= AgentsRequired
             /\ state'.requirements.arbiter_ready
             /\ state'.requirements.ledger_committed]_vars

\* C5: try_advance_to(IDLE) from any phase, and try_advance_to(INGESTING) from
\* IDLE, return True, set the phase to the target and clear blocked_reason,
\* whatever the requirement counters are.
C5_ResetAndBootstrapEdges ==
    [][(call'.op = "try_advance_to"
        /\ (call'.arg = IDLE \/ (call'.arg = INGESTING /\ state.phase = IDLE)))
       => /\ call'.ret = "True"
          /\ state'.phase = call'.arg
          /\ state'.blocked_reason = NoReason]_vars

\* C5 witness: idle -> ingesting accepted while a requirement is still short.
C5_Witness ==
    /\ call = Returned("try_advance_to", INGESTING, "True")
    /\ state.phase = INGESTING
    /\ ~met(state.requirements)
    /\ state.blocked_reason = NoReason

\* A requirement counter goes down in this step
CounterDecreases ==
    \/ state'.requirements.agents_completed < state.requirements.agents_completed
    \/ state.requirements.arbiter_ready /\ ~state'.requirements.arbiter_ready
    \/ state.requirements.ledger_committed /\ ~state'.requirements.ledger_committed

\* C6 as stated: the counters never decrease except when start_session begins a
\* new session.
C6_OnlyStartSessionResets ==
    [][CounterDecreases => call'.op = "start_session"]_vars

\* C6 amended: the counters never decrease under record_* or try_advance_to;
\* they return to zero/false only in start_session and in reset.
C6_CountersMonotone ==
    [][CounterDecreases => call'.op \in {"start_session", "reset"}]_vars

\* C6 witness: try_advance_to(IDLE) has run and the counters are still set.
C6_Witness ==
    /\ call = Returned("try_advance_to", IDLE, "True")
    /\ state.requirements.agents_completed > 0
    /\ state.requirements.arbiter_ready
    /\ state.requirements.ledger_committed

----------------------------------------------------------------------------
(* Control surface: properties *)

\* C7: the phase reported by /api/status, /api/health and the heartbeat is the
\* Phase Gate's current phase, and is one of idle, ingesting, deliberating,
\* synthesizing, published.
C7_ReportedPhaseIsGatePhase ==
    /\ get_status.phase = get_state.phase
    /\ health_check.phase = get_state.phase
    /\ heartbeat.phase = get_state.phase
    /\ get_status.phase \in Phase

----------------------------------------------------------------------------
(* Ledger: properties *)

IsPrefix(a, b) == Len(a) <= Len(b) /\ SubSeq(b, 1, Len(a)) = a

\* C8: a ledger grown from empty by add_source, add_forecast and
\* resolve_forecast is a chain: the first prev_hash is the genesis sentinel and
\* every later prev_hash is the id of the entry before it.
C8_LedgerChain ==
    /\ mind.ledger # <<>> => mind.ledger[1].prev_hash = GENESIS
    /\ \A i \in 2..Len(mind.ledger) :
          mind.ledger[i].prev_hash = mind.ledger[i - 1].id

\* C8 witness: a chain of three entries, one of each type.
C8_Witness ==
    /\ Len(mind.ledger) = 3
    /\ {mind.ledger[i].type : i \in 1..3}
         = {"INGEST", "FORECAST_OPEN", "FORECAST_RESOLVE"}
    /\ mind.ledger[3].prev_hash = mind.ledger[2].id
    /\ mind.ledger[3].prev_hash # mind.ledger[1].id

\* C9: every LivingMind operation keeps the existing ledger entries as they
\* were, in place, and never shortens the ledger.
C9_LedgerAppendOnly ==
    [][IsPrefix(mind.ledger, mind'.ledger)]_vars

\* C9 witness: a forecast has been resolved and its FORECAST_OPEN entry still
\* carries the open, unscored forecast.
C9_Witness ==
    /\ call.op = "resolve_forecast"
    /\ \E i, j \in 1..Len(mind.ledger) :
          /\ i < j
          /\ mind.ledger[i].type = "FORECAST_OPEN"
          /\ mind.ledger[j].type = "FORECAST_RESOLVE"
          /\ mind.ledger[j].payload.id = mind.ledger[i].payload.id
          /\ mind.ledger[i].payload.status = "open"
          /\ mind.ledger[i].payload.brier_score = NoScore
          /\ mind.ledger[j].payload.status = "resolved"

\* C10: the ledger run_full_pipeline writes to the snapshot has the ledger of
\* the snapshot it replaces as a prefix.
C10_DurableLedgerAppendOnly ==
    [][(data_file.exists /\ data_file'.exists)
       => IsPrefix(data_file.json.ledger, data_file'.json.ledger)]_vars

----------------------------------------------------------------------------
(* Mind aggregate: properties *)

HasSource(m, id) == \E i \in 1..Len(m.sources) : m.sources[i].id = id

ResolvedCount(m) ==
    Cardinality({i \in 1..Len(m.forecasts) : m.forecasts[i].status = "resolved"})

EntriesOfType(m, type) ==
    {i \in 1..Len(m.ledger) : m.ledger[i].type = type}

\* the step appended exactly one entry, of that type, to the ledger
AppendedOne(type) ==
    /\ Len(mind'.ledger) = Len(mind.ledger) + 1
    /\ IsPrefix(mind.ledger, mind'.ledger)
    /\ mind'.ledger[Len(mind'.ledger)].type = type

\* C11: add_source of an id not yet stored appends exactly one INGEST entry,
\* add_forecast exactly one FORECAST_OPEN entry, resolve_forecast of an id with
\* an open forecast exactly one FORECAST_RESOLVE entry; and the ledger is as
\* long as the number of effective mutations: stored sources, plus stored
\* forecasts, plus resolutions.
C11_OneEntryPerMutation ==
    [][/\ (call'.op = "add_source" /\ ~HasSource(mind, call'.arg.id))
          => AppendedOne("INGEST")
       /\ call'.op = "add_forecast" => AppendedOne("FORECAST_OPEN")
       /\ (call'.op = "resolve_forecast" /\ OpenMatches(mind, call'.arg[1]) # {})
          => AppendedOne("FORECAST_RESOLVE")
       /\ Len(mind'.ledger)
            = Len(mind'.sources) + Len(mind'.forecasts) + ResolvedCount(mind')]_vars

\* C11 witness: one source, one forecast and its resolution, three entries, and
\* the call that made the third was the resolution.
C11_Witness ==
    /\ call.op = "resolve_forecast"
    /\ Len(mind.sources) = 1 /\ Len(mind.forecasts) = 1 /\ ResolvedCount(mind) = 1
    /\ Len(mind.ledger) = 3
    /\ mind.ledger[3].type = "FORECAST_RESOLVE"

\* C12: in the mind a pipeline run has written, every forecast of
\* mind.forecasts has a FORECAST_OPEN entry in mind.ledger and every source of
\* mind.sources has an INGEST entry.
C12_PipelineMindFullyLedgered ==
    data_file.exists =>
        LET m == FromJson(data_file.json)
        IN /\ \A i \in 1..Len(m.forecasts) :
                 \E k \in EntriesOfType(m, "FORECAST_OPEN") :
                    m.ledger[k].payload.id = m.forecasts[i].id
           /\ \A i \in 1..Len(m.sources) :
                 \E k \in EntriesOfType(m, "INGEST") :
                    /\ m.ledger[k].payload.url = m.sources[i].url
                    /\ m.ledger[k].payload.title = m.sources[i].title

IngestEntries(m) == SelectSeq(m.ledger, LAMBDA e : e.type = "INGEST")

\* C13: add_source of an id already stored changes neither sources, ledger nor
\* stats; add_source of a new id stores that source and logs its url and title;
\* so there is always one stored Source and one INGEST entry per id, carrying
\* the url and title of the first add of that id.
C13_AddSourceFirstSeenWins ==
    [][/\ (call'.op = "add_source" /\ HasSource(mind, call'.arg.id))
          => mind' = mind
       /\ (call'.op = "add_source" /\ ~HasSource(mind, call'.arg.id))
          => /\ mind'.sources = Append(mind.sources, call'.arg)
             /\ mind'.ledger[Len(mind'.ledger)].payload
                  = [url |-> call'.arg.url, title |-> call'.arg.title]
       /\ IsPrefix(mind.sources, mind'.sources)
       /\ \A i, j \in 1..Len(mind'.sources) :
             mind'.sources[i].id = mind'.sources[j].id => i = j
       /\ Len(IngestEntries(mind')) = Len(mind'.sources)
       /\ \A i \in 1..Len(mind'.sources) :
             IngestEntries(mind')[i].payload
               = [url |-> mind'.sources[i].url, title |-> mind'.sources[i].title]]_vars

\* C13 witness: a source was added under an id already stored with another
\* title and url; the stored source and the single INGEST entry are the first.
C13_Witness ==
    /\ call.op = "add_source"
    /\ Len(mind.sources) = 1
    /\ mind.sources[1].id = call.arg.id
    /\ mind.sources[1].title # call.arg.title
    /\ mind.sources[1].url # call.arg.url
    /\ Len(IngestEntries(mind)) = 1
    /\ IngestEntries(mind)[1].payload.title = mind.sources[1].title

ForecastsOfId(m, id) == {i \in 1..Len(m.forecasts) : m.forecasts[i].id = id}

ResolveCalled(id) == call'.op = "resolve_forecast" /\ call'.arg[1] = id

\* C14 as stated: resolve_forecast(id, outcome) for an id that has a resolved
\* forecast, or for an id no forecast has, changes nothing of the mind.
C14_ResolvedOrAbsentIsNoOp ==
    [][\A id \in ForecastIds :
         (/\ ResolveCalled(id)
          /\ \/ ForecastsOfId(mind, id) = {}
             \/ \E i \in ForecastsOfId(mind, id) :
                   mind.forecasts[i].status = "resolved")
         => mind' = mind]_vars

\* C14, amended: resolve_forecast(id, outcome) for an id that no open forecast
\* has (every forecast of the id is resolved, or there is none) changes nothing
\* of the mind: forecasts, ledger and stats stay as they were, whatever the
\* outcome passed.
C14_NoOpenForecastIsNoOp ==
    [][\A id \in ForecastIds :
         (/\ ResolveCalled(id)
          /\ \A i \in ForecastsOfId(mind, id) :
                mind.forecasts[i].status = "resolved")
         => mind' = mind]_vars

\* C14 witness: the last call passed the opposite outcome for the one forecast,
\* already resolved; there is still one FORECAST_RESOLVE entry.
C14_Witness ==
    /\ call.op = "resolve_forecast"
    /\ Len(mind.forecasts) = 1
    /\ mind.forecasts[1].id = call.arg[1]
    /\ mind.forecasts[1].status = "resolved"
    /\ mind.forecasts[1].outcome # call.arg[2]
    /\ Cardinality(EntriesOfType(mind, "FORECAST_RESOLVE")) = 1

----------------------------------------------------------------------------
(* Forecast: properties *)

\* C15: once a Forecast's status is resolved, no operation on the Forecast or
\* the mind changes its status, outcome or brier_score.
C15_ResolutionIsFinal ==
    [][\A i \in 1..Len(mind.forecasts) :
         mind.forecasts[i].status = "resolved"
         => /\ i <= Len(mind'.forecasts)
            /\ mind'.forecasts[i].status = "resolved"
            /\ mind'.forecasts[i].outcome = mind.forecasts[i].outcome
            /\ mind'.forecasts[i].brier_score = mind.forecasts[i].brier_score]_vars

\* (o - p)^2 in millionths, o = 1 for true and 0 for false
SquaredError(f) ==
    LET o == IF f.outcome = "True" THEN 1000 ELSE 0
    IN (o - f.probability) * (o - f.probability)

\* C16: a resolved forecast of probability p carries brier_score =
\* round((o - p)^2, 4), the number of ten-thousandths nearest to (o - p)^2
\* (p=0.8,true -> 0.04; p=0.9,false -> 0.81; p=0.95,true -> 0.0025); a forecast
\* never resolved has brier_score null.
C16_BrierScoreFormula ==
    \A i \in 1..Len(mind.forecasts) :
       LET f == mind.forecasts[i]
       IN /\ f.status = "open" => f.brier_score = NoScore /\ f.outcome = None
          /\ f.status = "resolved"
             => /\ f.outcome \in Outcomes
                /\ f.brier_score >= 0
                /\ 100 * f.brier_score - 50 < SquaredError(f)
                /\ SquaredError(f) < 100 * f.brier_score + 50
                /\ (f.probability = 800 /\ f.outcome = "True") => f.brier_score = 400
                /\ (f.probability = 900 /\ f.outcome = "False") => f.brier_score = 8100
                /\ (f.probability = 950 /\ f.outcome = "True") => f.brier_score = 25

\* C16 witness: p = 0.958 resolved true, (0.042)^2 = 0.001764 rounded up to
\* 0.0018.
C16_Witness ==
    /\ call.op \in {"resolve_forecast", "Forecast.resolve"}
    /\ mind.forecasts[1].probability = 958
    /\ mind.forecasts[1].status = "resolved"
    /\ mind.forecasts[1].outcome = "True"
    /\ mind.forecasts[1].brier_score = 18

----------------------------------------------------------------------------
(* Deliberation: properties *)

HasSession == ~current_session.is_none

\* the initial-takes phase of the current session is over
TakesAssembled ==
    HasSession /\ current_session.phase \in {"cross_response", "synthesizing", "complete"}

\* one take per client, in the order of the clients
OneTakePerClient(s) ==
    /\ Len(s.initial_takes) = Len(clients)
    /\ \A i \in 1..Len(clients) : s.initial_takes[i].model_id = clients[i]

ResponsesAssembled ==
    HasSession /\ current_session.phase \in {"synthesizing", "complete"}

\* C18: with N >= 2 takes, the responses of a session are, in order, one from
\* the provider of take i to the provider of the take after it (the first take
\* after the last): a prefix of that ring while cross_response runs and the
\* whole ring once it is over. So no provider originates two responses, there
\* are no more responses than takes, and none answers its own take.
C18_ResponsesAreTheRing ==
    (HasSession /\ Len(current_session.initial_takes) >= 2) =>
        LET takes == current_session.initial_takes
            responses == current_session.responses
            N == Len(takes)
        IN /\ Len(responses) <= N
           /\ ResponsesAssembled => Len(responses) = N
           /\ \A i \in 1..Len(responses) :
                 /\ responses[i].model_id = takes[i].model_id
                 /\ responses[i].responding_to
                      = takes[IF i = N THEN 1 ELSE i + 1].model_id
                 /\ responses[i].responding_to # responses[i].model_id
           /\ \A i, j \in 1..Len(responses) :
                 responses[i].model_id = responses[j].model_id => i = j

\* C18 witness: three takes and the three responses of the ring, the last one
\* answering the first take.
C18_Witness ==
    /\ ResponsesAssembled
    /\ Len(current_session.initial_takes) = 3
    /\ Len(current_session.responses) = 3
    /\ current_session.responses[3].model_id = current_session.initial_takes[3].model_id
    /\ current_session.responses[3].responding_to
         = current_session.initial_takes[1].model_id

CountOf(events, event_type) ==
    Cardinality({i \in 1..Len(events) : events[i] = event_type})

\* the current session has its takes assembled and they are fewer than two
FewTakes == TakesAssembled /\ Len(current_session.initial_takes) < 2

SameSession ==
    /\ HasSession
    /\ ~current_session'.is_none
    /\ current_session'.session_id = current_session.session_id

\* C20: the synthesis of a session is null throughout initial_takes and
\* cross_response; it is assigned in phase synthesizing, from null, and never
\* assigned again; once it is assigned no Take or Response is added; and a
\* complete session has a synthesis and a completed_at timestamp.
C20_SynthesisOnceAndLast ==
    [][/\ (HasSession' /\ current_session'.phase
                             \in {"idle", "initial_takes", "cross_response"})
          => current_session'.synthesis.is_none
       /\ (SameSession /\ current_session'.synthesis # current_session.synthesis)
          => /\ current_session.synthesis.is_none
             /\ current_session.phase = "synthesizing"
             /\ current_session'.phase = "synthesizing"
             /\ ResponsesAssembled
       /\ (SameSession /\ ~current_session.synthesis.is_none)
          => /\ current_session'.initial_takes = current_session.initial_takes
             /\ current_session'.responses = current_session.responses
       /\ (HasSession' /\ current_session'.phase = "complete")
          => /\ ~current_session'.synthesis.is_none
             /\ current_session'.completed_at # NoTime
             /\ CountOf(current_session'.events, "synthesis_complete") = 1]_vars

\* C20 witness: deliberate() has just returned a complete session of three
\* takes and three responses with its synthesis and completed_at.
C20_Witness ==
    /\ call.op = "deliberate" /\ call.ret = "complete"
    /\ current_session.phase = "complete"
    /\ Len(current_session.initial_takes) = 3
    /\ Len(current_session.responses) = 3
    /\ ~current_session.synthesis.is_none
    /\ current_session.completed_at # NoTime

\* the phase that follows in idle, initial_takes, cross_response, synthesizing,
\* complete
NextSessionPhase(p) ==
    CASE p = "idle" -> "initial_takes"
      [] p = "initial_takes" -> "cross_response"
      [] p = "cross_response" -> "synthesizing"
      [] p = "synthesizing" -> "complete"
      [] OTHER -> "complete"

\* C21: a session starts in phase idle, and every step of the engine leaves
\* its phase as it is or moves it to the next phase of idle, initial_takes,
\* cross_response, synthesizing, complete; from complete it moves nowhere.
C21_PhaseSequence ==
    [][/\ (~current_session'.is_none /\ ~SameSession)
          => current_session'.phase = "idle"
       /\ SameSession
          => \/ current_session'.phase = current_session.phase
             \/ /\ current_session.phase # "complete"
                /\ current_session'.phase = NextSessionPhase(current_session.phase)]_vars

\* C21 witness: the second session of an engine with the local client alone
\* (no cross-response to run) is complete and has announced three phases.
C21_Witness ==
    /\ HasSession
    /\ deliberations = 2
    /\ Len(clients) = 1
    /\ current_session.phase = "complete"
    /\ CountOf(current_session.events, "phase_change") = 3
    /\ epc = "none"

\* C22: once the phase of a session is complete, no step of the engine changes
\* any field of that session (takes, responses, synthesis, events,
\* timestamps).
C22_CompleteSessionImmutable ==
    [][(SameSession /\ current_session.phase = "complete")
          => current_session' = current_session]_vars

\* the steps of a running deliberate(): the event loop resumes the coroutine
\* and every provider call returns, fails or times out
DelibProgress ==
    \/ InitialTakesBegin
    \/ \E i \in 1..MaxClients, reply \in Replies : TakeReturns(i, reply)
    \/ GatherReturns
    \/ CrossResponseBegin
    \/ \E reply \in Replies : RespondReturns(reply)
    \/ SynthesisBegin
    \/ \E reply \in Replies : SynthesisReturns(reply)
    \/ DeliberateCompletes
    \/ DeliberateReturns

\* what a running deliberate() still has to do: the code positions ahead of
\* it, then the provider calls it is still waiting for
EpcRank ==
    CASE epc = "created" -> 8
      [] epc = "gather" -> 7
      [] epc = "gathered" -> 6
      [] epc = "cross" -> 5
      [] epc = "crossed" -> 4
      [] epc = "synthesis" -> 3
      [] epc = "finish" -> 2
      [] epc = "completed" -> 1
      [] OTHER -> 0

CallsAwaited ==
    CASE epc = "gather" -> Cardinality({i \in 1..Len(tasks) : ~tasks[i].done})
      [] epc = "cross" -> Len(current_session.initial_takes) + 1 - ri
      [] OTHER -> 0

Remaining == EpcRank * (MaxClients + 2) + CallsAwaited

OwnTake(model_id, reply) ==
    [model_id |-> model_id,
     take |-> CASE reply = "formatted" -> "analysis"
                [] reply = "malformed" -> "rambling"
                [] OTHER -> "[ERROR]",
     confidence |-> IF reply = "formatted" THEN 80 ELSE DefaultConfidence]

\* the Response a provider's own reply stands for: its own take and the id of
\* the take it responds to are all it has from the session
OwnResponse(own_take, target_id, reply) ==
    [model_id |-> own_take.model_id,
     responding_to |-> target_id,
     agreement_level |-> IF reply = "formatted" THEN 50 ELSE 0,
     response |-> CASE reply = "formatted" -> "rebuttal"
                    [] reply = "malformed" -> "rambling"
                    [] OTHER -> "[ERROR]",
     updated_confidence |-> IF reply = "formatted" THEN 60 ELSE own_take.confidence]

\* C24: a provider call that fails gives that provider's own Take or Response
\* the error text, and every Take and Response is what its provider's own
\* reply makes it: the Take of a provider depends on its reply alone, its
\* Response on its reply, its own Take and the id of the Take responded to,
\* and the Takes and Responses of the others are left as they are.
C24_FailuresAreIsolated ==
    [][/\ call'.op = "_get_initial_take"
          => \E i \in 1..Len(tasks) :
                /\ ~tasks[i].done
                /\ tasks'[i].done
                /\ tasks'[i].is_take
                /\ tasks'[i].take = OwnTake(clients[i], call'.ret)
                /\ \A j \in 1..Len(tasks) : j # i => tasks'[j] = tasks[j]
                /\ current_session'.initial_takes = current_session.initial_takes
       /\ call'.op = "gather"
          => current_session'.initial_takes
                = [i \in 1..Len(tasks) |-> tasks[i].take]
       /\ call'.op = "respond"
          => LET takes == current_session.initial_takes
                 target == takes[(ri % Len(takes)) + 1]
             IN /\ current_session'.initial_takes = takes
                /\ current_session'.responses
                      = Append(current_session.responses,
                               OwnResponse(takes[ri], target.model_id, call'.ret))]_vars

\* C24 witness: of three providers the second failed in both phases; the
\* first, which responds to the failed take, and the third have the Takes and
\* Responses of their own formatted replies.
C24_Witness ==
    /\ HasSession
    /\ Len(current_session.initial_takes) = 3
    /\ Len(current_session.responses) = 3
    /\ current_session.initial_takes[2].take = "[ERROR]"
    /\ current_session.responses[2].response = "[ERROR]"
    /\ \A i \in {1, 3} :
          /\ current_session.initial_takes[i].take = "analysis"
          /\ current_session.initial_takes[i].confidence = 80
          /\ current_session.responses[i].response = "rebuttal"
          /\ current_session.responses[i].updated_confidence = 60
    /\ current_session.responses[1].responding_to
          = current_session.initial_takes[2].model_id

----------------------------------------------------------------------------
(* Control surface: runs *)

\* the runs accepted and not finished: scheduled background tasks and the
\* ones that are running
RunsInProgress ==
    pending.pipeline + pending.deliberation
    + (IF pc # "none" THEN 1 ELSE 0) + (IF dpc # "none" THEN 1 ELSE 0)

\* C30: at most one pipeline or deliberation run is accepted and not finished
\* at any time, under every interleaving of /api/refresh and /api/deliberate
\* requests with the background tasks.
C30_AtMostOneRun == RunsInProgress <= 1

----------------------------------------------------------------------------
(* Snapshot store: properties *)

\* ledger[i].prev_hash == ledger[i-1].id for every i > 0
HashChainValid(ledger) ==
    \A i \in 2..Len(ledger) : ledger[i].prev_hash = ledger[i - 1].id

\* C28: a snapshot whose ledger breaks the hash chain is not loaded: the
\* prev_mind a pipeline run works with is None or has a valid chain.
C28_CorruptSnapshotNotLoaded ==
    ~locals.prev_mind.is_none => HashChainValid(locals.prev_mind.mind.ledger)

\* C29: whatever happens to a pipeline run, every step leaves the snapshot
\* file as it was or replaces it by a complete snapshot.
C29_NoPartialOverwrite ==
    [][data_file' = data_file \/ (data_file'.exists /\ IsJson(data_file'))]_vars

----------------------------------------------------------------------------
(* Live stream: properties *)

\* the events a connection has been sent
ReceivedEvents(s) ==
    {subscribers[s].received[k].event :
        k \in {l \in 1..Len(subscribers[s].received) :
                 subscribers[s].received[l].type = "event"}}

QueuedEvents == {EVENT_QUEUE[k] : k \in 1..Len(EVENT_QUEUE)}

\* C25: every event broadcast while a subscriber is connected reaches that
\* subscriber, whatever the number of connected subscribers: such an event is
\* either still queued or has been sent to the subscriber.
C25_EveryEventToEverySubscriber ==
    \A s \in Subscribers :
        subscribers[s].connected
            => \A e \in (subscribers[s].since + 1)..broadcasts :
                  e \in QueuedEvents \/ e \in ReceivedEvents(s)

\* C26: the event queue never holds more than a fixed number of events: with
\* no consumer it does not hold every event broadcast so far.
C26_QueueBounded == Len(EVENT_QUEUE) < MaxBroadcasts

\* C27: a subscriber is sent no event that was broadcast before it connected.
C27_NoReplay ==
    \A s \in Subscribers :
        subscribers[s].connected
            => \A e \in ReceivedEvents(s) : e > subscribers[s].since

----------------------------------------------------------------------------
(* Control surface: return to idle *)

\* C31: the engine is never left reporting busy: when no run is scheduled or
\* running any more (nothing is left that would change the phase), the phase
\* is idle, also after a run that ended with an exception.
C31_IdleWhenNothingRuns ==
    RunsInProgress = 0 => ENGINE_STATE.phase = "idle"

----------------------------------------------------------------------------
(* Deliberation: the barrier between the phases *)

\* C32: the cross-response phase starts behind the barrier of the initial
\* takes: when asyncio.gather returns every take task has returned and all
\* their Takes are appended; when _phase_cross_response starts, and whenever a
\* response is awaited or stored, no take task is left and every client has
\* its Take; and no step after the barrier changes the Takes.
C32_BarrierBeforeCrossResponse ==
    [][/\ call'.op = "gather"
          => /\ \A i \in 1..Len(tasks) : tasks[i].done
             /\ Len(current_session'.initial_takes) = Len(tasks)
       /\ (call'.op \in {"_phase_cross_response", "respond"} \/ epc' = "cross")
          => /\ tasks = <<>> /\ tasks' = <<>>
             /\ Len(current_session'.initial_takes) = Len(clients)
       /\ (SameSession /\ call'.op # "gather")
          => current_session'.initial_takes = current_session.initial_takes]_vars

\* C32 witness: the first response of a session of three Takes is awaited and
\* none has been stored yet.
C32_Witness ==
    /\ HasSession
    /\ epc = "cross"
    /\ ri = 1
    /\ call.op = "_phase_cross_response"
    /\ tasks = <<>>
    /\ Len(current_session.initial_takes) = 3
    /\ current_session.responses = <<>>

\* C33: the assembled Takes are in the order of the clients whatever the
\* order in which the provider tasks return: when asyncio.gather returns, Take
\* i is the Take of task i, of client i; and the Takes stay in that order, the
\* order the ring of responses is built on.
C33_TakesOrderStable ==
    [][/\ call'.op = "gather"
          => /\ Len(current_session'.initial_takes) = Len(clients)
             /\ \A i \in 1..Len(clients) :
                   /\ current_session'.initial_takes[i] = tasks[i].take
                   /\ current_session'.initial_takes[i].model_id = clients[i]
       /\ (HasSession' /\ epc' \in {"gathered", "cross", "crossed", "synthesis",
                                     "finish", "completed"})
          => \A i \in 1..Len(current_session'.initial_takes) :
                current_session'.initial_takes[i].model_id = clients[i]]_vars

\* C33 witness: three tasks returned last client first, and the Takes are
\* assembled first client first.
C33_Witness ==
    /\ HasSession
    /\ epc = "gathered"
    /\ call.op = "gather"
    /\ call.arg = <<3, 2, 1>>
    /\ Len(current_session.initial_takes) = 3
    /\ \A i \in 1..3 : current_session.initial_takes[i].model_id = clients[i]

----------------------------------------------------------------------------
(* Mind aggregate: scores and counters *)

ResolvedForecasts(m) == SelectSeq(m.forecasts, LAMBDA f : f.status = "resolved")

\* C34: under add_forecast and resolve_forecast of open forecasts,
\* stats.mean_brier_score is null exactly when no forecast is resolved, and
\* otherwise it is the mean of brier_score over the resolved forecasts rounded
\* to 4 decimals: a ten-thousandth nearest to total / count.
C34_MeanBrierScore ==
    LET resolved == ResolvedForecasts(mind)
        n == Len(resolved)
        total == SumBrier(resolved)
        mean == mind.stats.mean_brier_score
    IN /\ (n = 0) <=> (mean = NoScore)
       /\ n > 0 => /\ 2 * (mean * n - total) <= n
                   /\ 2 * (total - mean * n) <= n

\* C34 witness: one forecast is still open and two are resolved with different
\* scores, 0.04 and 0.9025, whose mean 0.47125 needs the rounding.
C34_Witness ==
    /\ call.op = "resolve_forecast"
    /\ Len(ResolvedForecasts(mind)) = 2
    /\ {ResolvedForecasts(mind)[i].brier_score : i \in 1..2} = {400, 9025}
    /\ mind.stats.mean_brier_score \in {4712, 4713}

----------------------------------------------------------------------------
(* Deliberation: confidence shifts *)

\* C35: confidence_shifts has exactly one entry per provider with a Take; it
\* is the updated confidence of the provider's Response minus the confidence
\* of its Take when the provider gave a Response (so 60 - original for a
\* Response in the format asked for, and 0 for a Response without a parsable
\* updated confidence), and 0 when the provider gave no Response.
C35_ConfidenceShifts ==
    (HasSession /\ ~current_session.synthesis.is_none) =>
        LET takes == current_session.initial_takes
            responses == current_session.responses
            shifts == current_session.synthesis.confidence_shifts
        IN /\ DOMAIN shifts = {takes[i].model_id : i \in 1..Len(takes)}
           /\ \A i \in 1..Len(takes) :
                 LET own == {k \in 1..Len(responses) :
                               responses[k].model_id = takes[i].model_id}
                 IN /\ own = {} => shifts[takes[i].model_id] = 0
                    /\ \A k \in own :
                          /\ shifts[takes[i].model_id]
                               = responses[k].updated_confidence - takes[i].confidence
                          /\ responses[k].response = "rebuttal"
                               => shifts[takes[i].model_id] = 60 - takes[i].confidence
                          /\ responses[k].response # "rebuttal"
                               => shifts[takes[i].model_id] = 0

\* C35 witness: a synthesis over three providers with a shift of -0.2 (Take
\* 0.8, Response 0.6), one of +0.1 (failed Take 0.5, Response 0.6) and one of
\* 0 (Response without an updated confidence).
C35_Witness ==
    /\ HasSession
    /\ ~current_session.synthesis.is_none
    /\ Len(current_session.responses) = 3
    /\ {current_session.synthesis.confidence_shifts[m] :
          m \in DOMAIN current_session.synthesis.confidence_shifts} = {-20, 10, 0}

----------------------------------------------------------------------------
(* Deliberation: available providers *)

\* C36: under every credential configuration (each key present, absent or
\* the placeholder) the local model reports available, and the clients of the
\* engine are not empty and contain the local model, so that the initial
\* takes and the synthesis (the first client) have a provider to call.
C36_LocalAlwaysAvailable ==
    /\ clients # <<>>
    /\ \E i \in 1..Len(clients) : clients[i] = "local"
    /\ (call.op = "_check_availability" /\ call.arg[1] = "local") => call.ret

\* C36 witness: an engine built with every key set to the placeholder has the
\* local client alone.
C36_Witness ==
    /\ call.op = "_init_clients"
    /\ \A m \in Keyed : call.arg[m] = "YOUR_KEY_HERE"
    /\ clients = <<"local">>

----------------------------------------------------------------------------
(* Forecast parser: properties *)

ForecastLines(raw) == {i \in 1..Len(raw) : raw[i].forecast}

\* C37: _parse_forecasts returns one Forecast per FORECAST line, each with
\* status open and a probability within [0.01, 0.99]; where the line has one
\* PROB part, a number below 0.01 gives 0.01, a number above 0.99 gives 0.99,
\* a number between them is kept, and text that is no number gives 0.5;
\* without a PROB part the probability is 0.5. No line is lost to an exception.
C37_ParsedProbabilityClamped ==
    call.op = "_parse_forecasts" =>
        LET raw == call.arg
            forecasts == call.ret
        IN /\ Len(forecasts) = Cardinality(ForecastLines(raw))
           /\ \A i \in 1..Len(forecasts) :
                 /\ forecasts[i].status = "open"
                 /\ forecasts[i].probability >= 10
                 /\ forecasts[i].probability <= 990
           /\ (Len(raw) = 1 /\ raw[1].forecast) =>
                 LET probs == raw[1].probs
                     p == forecasts[1].probability
                 IN /\ probs = <<>> => p = 500
                    /\ (Len(probs) = 1 /\ probs[1].kind = "text") => p = 500
                    /\ (Len(probs) = 1 /\ probs[1].kind = "number") =>
                          p = (IF probs[1].v < 10 THEN 10
                               ELSE IF probs[1].v > 990 THEN 990 ELSE probs[1].v)

\* C37 witness: a line with PROB: -0.5 has been parsed into a forecast of
\* probability 0.01.
C37_Witness ==
    /\ call.op = "_parse_forecasts"
    /\ Len(call.arg) = 1
    /\ call.arg[1].forecast
    /\ call.arg[1].probs = <<[kind |-> "number", v |-> -500]>>
    /\ Len(call.ret) = 1
    /\ call.ret[1].probability = 10

\* C38: under add_forecast and resolve_forecast of open forecasts, every
\* forecast of the mind has status resolved exactly when its outcome is set
\* and exactly when its brier_score is set, and none is expired.
C38_StatusOutcomeScoreAgree ==
    \A i \in 1..Len(mind.forecasts) :
        LET f == mind.forecasts[i]
        IN /\ (f.status = "resolved") <=> (f.outcome # None)
           /\ (f.outcome # None) <=> (f.brier_score # NoScore)
           /\ f.status \in {"open", "resolved"}

\* C38 witness: a forecast resolved with the score 0 (probability 0, outcome
\* False) beside one that is still open.
C38_Witness ==
    /\ call.op = "resolve_forecast"
    /\ \E i, j \in 1..Len(mind.forecasts) :
          /\ mind.forecasts[i].status = "resolved"
          /\ mind.forecasts[i].outcome = "False"
          /\ mind.forecasts[i].brier_score = 0
          /\ mind.forecasts[j].status = "open"
          /\ mind.forecasts[j].outcome = None

\* C39: after any sequence of add_forecast and resolve_forecast calls,
\* stats.active_forecasts is the number of forecasts whose status is open.
C39_ActiveForecastsCountsOpen ==
    mind.stats.active_forecasts
        = Cardinality({i \in 1..Len(mind.forecasts) : mind.forecasts[i].status = "open"})

----------------------------------------------------------------------------
(* Phase Gate: the event log *)

\* C40: every try_advance_to that returns True appends one event to the
\* event log, a phase_changed event for the new phase, and sets last_event to
\* phase_changed, whatever the target.
C40_EveryPhaseChangeLogged ==
    [][(call'.op = "try_advance_to" /\ call'.ret = "True")
         => /\ Len(event_log') = Len(event_log) + 1
            /\ SubSeq(event_log', 1, Len(event_log)) = event_log
            /\ event_log'[Len(event_log')].type = "phase_changed"
            /\ state'.last_event = "phase_changed"
            /\ state'.phase = call'.arg]_vars

====
